---- MODULE Spec2Model ----
(***************************************************************************)
(* Model of the compressed-NFT batch transfer of                           *)
(* src/src/lib/solana/nft-transfer.ts: transferCompressedNFTs and the two  *)
(* indexing-service helpers it calls (fetchIndividualAssetData and         *)
(* fetchIndividualAssetProof).  One call of transferCompressedNFTs is the  *)
(* main flow; the asset fetch and the proof fetch of a job are separate    *)
(* asynchronous calls joined by Promise.all.  Every await is a point where *)
(* the environment (indexing service, network, wallet, timers) answers.    *)
(* Indices are 1-based here, 0-based in the source.                        *)
(***************************************************************************)
EXTENDS Integers, Sequences, FiniteSets

VARIABLES
    walletConnected, \* wallet.publicKey && wallet.signTransaction
    heliusUrl,       \* import.meta.env.VITE_HELIUS_KEY is set
    nftMints,        \* argument nftMints
    recipients,      \* argument recipients
    pc,              \* position of the transfer function that was called
    i,               \* loop index (1-based)
    assetCall,       \* per job: the fetchIndividualAssetData call
    proofCall,       \* per job: the fetchIndividualAssetProof call
    transaction,     \* the job's Transaction (local of the iteration)
    signature,       \* the job's signature (local of the iteration)
    signatures,      \* const signatures: string[]
    jobLog,          \* per job: what the console and the network saw of it
    result,          \* the value the call returned
    thrown,          \* the error the call threw
    timer,           \* milliseconds of the pending delay() of the main flow
    blockhashReqs,   \* getLatestBlockhash requests issued so far
    regTx,           \* transferRegularNFTs: const transaction
    retries,         \* transferRegularNFTs: let retries
    regSignature,    \* transferRegularNFTs: let signature
    regLog,          \* transferRegularNFTs: what the network and the wallet saw
    regResult,       \* transferRegularNFTs: the value the call returned
    connected,       \* Index page: useWallet().connected
    nftType,         \* Index page: "regular" or "cnft"
    selectedNFTs,    \* Index page: state selectedNFTs
    addresses,       \* Index page: state addresses
    sending,         \* Index page: state sending
    toasts,          \* Index page: the toasts shown, in order
    hs,              \* Index page: position of handleSend
    dasPc,           \* checkDASSupport: position of the call
    dasResponse,     \* checkDASSupport: what fetch and response.json() gave
    dasSupported,    \* checkDASSupport: the value returned (once returned)
    logged,          \* the success counts written to the console, in order
    publicKey,       \* NFTSelector: useWallet().publicKey ("none" for null)
    nfts,            \* NFTSelector: state nfts (the mints of the loaded list)
    loading,         \* NFTSelector: state loading
    loads,           \* NFTSelector: the loadNFTs calls whose fetch is in flight
    parses,          \* AddressInput: the Papa.parse calls that have not completed
    listing,         \* nft-fetcher: one call of fetchWalletNFTs or fetchWalletCNFTs
    umi              \* transferCompressedNFTsUmi: one call (position, index, signatures, what was confirmed)

inputs == <<walletConnected, heliusUrl, nftMints, recipients>>
compressed == <<assetCall, proofCall, transaction, signature, signatures, jobLog,
                result>>
regular == <<regTx, retries, regSignature, regLog, regResult>>
page == <<connected, nftType, selectedNFTs, addresses, sending, toasts, hs>>
probing == <<dasPc, dasResponse, dasSupported>>
console == <<logged>>
selector == <<publicKey, nfts, loading, loads>>
uploads == <<parses>>
fetcher == <<listing>>
umiState == <<umi>>
vars == <<walletConnected, heliusUrl, nftMints, recipients, pc, i, assetCall,
          proofCall, transaction, signature, signatures, jobLog, result,
          thrown, timer, blockhashReqs, regTx, retries, regSignature, regLog,
          regResult, connected, nftType, selectedNFTs, addresses, sending, toasts,
          hs, dasPc, dasResponse, dasSupported,
          logged,
          publicKey, nfts, loading, loads,
          parses,
          listing,
          umi>>

(***************************************************************************)
(* Bounds and program constants                                            *)
(***************************************************************************)
MaxBatch == 2

MaxRetries == 3

BaseDelayMs == 1000

InterJobDelayMs == 1000

(***************************************************************************)
(* Values                                                                  *)
(***************************************************************************)
\* The asset ids and addresses a batch is drawn from: entry k of a batch is
\* the k-th id (the selection holds distinct ids) or the empty string.
MintNames == <<"mintA", "mintB", "mintC", "mintD">>

RecipientNames == <<"rcptA", "rcptB", "rcptC", "rcptD">>

Batches(names) ==
    UNION {[1 .. n -> {""} \cup {names[k] : k \in 1 .. n}] : n \in 0 .. MaxBatch}

MintLists == {s \in Batches(MintNames) : \A k \in DOMAIN s : s[k] \in {"", MintNames[k]}}

RecipientLists ==
    {s \in Batches(RecipientNames) : \A k \in DOMAIN s : s[k] \in {"", RecipientNames[k]}}

Wallet == "wallet"

OtherOwner == "stranger"

Delegates == {"", Wallet, "delegate"}

GoodTree == "tree"

BadTree == "not-a-key"

NoAsset == [found |-> FALSE, owner |-> "", delegate |-> "", tree |-> ""]

Assets ==
    [found : {TRUE}, owner : {Wallet, OtherOwner}, delegate : Delegates,
     tree : {GoodTree, BadTree}]

\* What fetch(getAsset) + response.json() can do: throw, or yield data.result.
AssetResponses ==
    {[kind |-> "throws", result |-> NoAsset]}
        \cup [kind : {"ok"}, result : Assets \cup {NoAsset}]

NoProof == [present |-> FALSE, root |-> "", proofKind |-> "missing", nodes |-> <<>>]

ProofResults ==
    {NoProof}
        \cup [present : {TRUE}, root : {"", "root"}, proofKind : {"missing", "notArray"},
              nodes : {<<>>}]
        \cup [present : {TRUE}, root : {"", "root"}, proofKind : {"array"},
              nodes : {<<>>, <<"n1">>, <<"n1", "n2">>}]

\* What fetch(getAssetProof) can do: throw, answer with a non-2xx status, answer
\* with a JSON-RPC error, or answer with data.result.
ProofResponses ==
    [kind : {"throws", "http429", "dasError"}, result : {NoProof}]
        \cup [kind : {"ok"}, result : ProofResults]

NoTx == [keys |-> <<>>, mint |-> "", to |-> "", blockhash |-> 0, feePayer |-> ""]

NoSig == [mint |-> "", to |-> "", blockhash |-> 0]

IdleAsset == [st |-> "idle", reqs |-> 0, val |-> NoAsset]

IdleProof ==
    [st |-> "idle", attempt |-> 0, reqs |-> 0, waits |-> <<>>, val |-> NoProof,
     err |-> "", rateLimitedFirst |-> FALSE]

NewJobLog ==
    [outcome |-> "Pending", reason |-> "", signature |-> NoSig, getAssetReqs |-> 0,
     ixBuilt |-> FALSE, blockhashReqs |-> 0,
     signReqs |-> 0, sendReqs |-> 0, confirmReqs |-> 0, delayBefore |-> 0]

\* transferRegularNFTs: new Transaction(), and the signature before it is
\* assigned.
NewRegTx == [ixs |-> <<>>, blockhash |-> 0, feePayer |-> ""]

NoRegSig == [sent |-> FALSE, ixs |-> <<>>, blockhash |-> 0]

\* transferCompressedNFTsUmi: no call has been made.
IdleUmi ==
    [pc |-> "idle", i |-> 1, signatures |-> <<>>, confirmed |-> <<>>, failed |-> <<>>,
     skipped |-> <<>>, result |-> <<>>, logged |-> <<>>, thrown |-> ""]

\* nft-fetcher: no listing call has been made.
IdleListing ==
    [pc |-> "idle", fn |-> "", wallet |-> "", requests |-> 0, responses |-> <<>>,
     waits |-> <<>>, body |-> "", result |-> <<>>]

NewRegLog ==
    [getAccountReqs |-> 0, signReqs |-> 0, sendReqs |-> 0, confirmReqs |-> 0,
     waits |-> <<>>, signedBlockhashes |-> <<>>, lookupFailed |-> <<>>,
     failures |-> <<>>]

\* The answers to signTransaction, sendRawTransaction and confirmTransaction
\* in transferRegularNFTs: success, an error whose message names a rate limit
\* ("429" or "rate limit"), any other error.
RegResponses == {"ok", "rateLimit", "error"}

N == Len(nftMints)

Jobs == 1 .. N

(***************************************************************************)
(* fetchIndividualAssetData: one getAsset request, every failure swallowed *)
(***************************************************************************)
\* The call up to its first await: without an endpoint the throw is caught
\* inside the function and the call resolves to null with no request sent.
StartAsset ==
    IF heliusUrl
    THEN [st |-> "pending", reqs |-> 1, val |-> NoAsset]
    ELSE [st |-> "resolved", reqs |-> 0, val |-> NoAsset]

\* Mutant: the two counts are never compared.
CountsMatchUnchecked(mints, addrs) == TRUE

\* nftMints.length !== recipients.length, negated (61, 291; Index.tsx 44).
CountsMatch(mints, addrs) == Len(mints) = Len(addrs)

\* Mutant: the wallet is never checked.
WalletReadyUnchecked == TRUE

\* !wallet.publicKey || !wallet.signTransaction, negated (57, 287).
WalletReady == walletConnected

\* Mutant: a request that throws is sent once more.
AssetOnResponseRetries(call, resp) ==
    IF resp.kind = "throws" /\ call.reqs < 2
    THEN [call EXCEPT !.reqs = @ + 1]
    ELSE [call EXCEPT !.st = "resolved",
                      !.val = IF resp.kind = "ok" THEN resp.result ELSE NoAsset]

\* The answer of the one request: data.result, or null from the catch block.
AssetOnResponse(call, resp) ==
    [call EXCEPT !.st = "resolved",
                 !.val = IF resp.kind = "ok" THEN resp.result ELSE NoAsset]

(***************************************************************************)
(* fetchIndividualAssetProof: the retry loop                               *)
(***************************************************************************)
\* Mutant: the call answers from a cache, without a request.
StartProofCached ==
    [IdleProof EXCEPT !.st = "resolved",
                      !.val = [present |-> TRUE, root |-> "root", proofKind |-> "array",
                               nodes |-> <<"n1">>]]

\* The call up to its first await: without an endpoint it throws at once.
StartProof ==
    IF heliusUrl
    THEN [IdleProof EXCEPT !.st = "pending", !.attempt = 1, !.reqs = 1]
    ELSE [IdleProof EXCEPT !.st = "rejected", !.err = "ConfigError"]

\* if (!result || !result.root || !result.proof || !Array.isArray(result.proof))
ValidProofStructure(r) ==
    /\ r.present
    /\ r.root # ""
    /\ r.proofKind # "missing"
    /\ r.proofKind = "array"

\* The attempt's try block reaches its return.
ProofAttemptOk(resp) ==
    /\ resp.kind # "throws"
    /\ resp.kind # "http429"
    /\ resp.kind # "dasError"
    /\ ValidProofStructure(resp.result)

\* Mutant: the same wait before every retry.
BackoffDelayFlat(attempt) == BaseDelayMs

\* Mutant: the wait is computed from a zero-based attempt number.
BackoffDelayZeroBased(attempt) == BaseDelayMs * (attempt - 1)

\* await delay(1000 * attempt)
BackoffDelay(attempt) == BaseDelayMs * attempt

\* Mutant: the loop runs one attempt more.
ProofOnResponseExtraAttempt(call, resp) ==
    IF ProofAttemptOk(resp)
    THEN [call EXCEPT !.st = "resolved", !.val = resp.result]
    ELSE IF call.attempt = MaxRetries + 1
         THEN [call EXCEPT !.st = "rejected", !.err = "ProofFetchFailed"]
         ELSE [call EXCEPT !.st = "backoff",
                           !.waits = Append(@, BackoffDelay(call.attempt))]

\* The answer of one attempt: return, throw after the last attempt, or wait.
ProofOnResponse(call, resp) ==
    IF ProofAttemptOk(resp)
    THEN [call EXCEPT !.st = "resolved", !.val = resp.result]
    ELSE IF call.attempt = MaxRetries
         THEN [call EXCEPT !.st = "rejected", !.err = "ProofFetchFailed"]
         ELSE [call EXCEPT !.st = "backoff",
                           !.waits = Append(@, BackoffDelay(call.attempt))]

\* Bookkeeping of the properties: whether the first request of the call was
\* answered with HTTP 429 (response.ok false, line 239).
Answered(after, before, resp) ==
    [after EXCEPT !.rateLimitedFirst =
        IF before.reqs = 1 THEN resp.kind = "http429" ELSE @]

\* The backoff timer fires: attempt++ and the next request goes out.
ProofOnTimer(call) ==
    [call EXCEPT !.st = "pending", !.attempt = @ + 1, !.reqs = @ + 1]

(***************************************************************************)
(* transferCompressedNFTs: the synchronous pieces                          *)
(***************************************************************************)
\* Promise.all([asset, proof]): rejects with the first rejection, resolves
\* when both have resolved.
PromiseAll(a, p) ==
    IF p.st = "rejected" THEN "rejected"
    ELSE IF a.st = "resolved" /\ p.st = "resolved" THEN "resolved"
    ELSE "pending"

\* if (!assetData || !assetProof)
DataFetched(asset, proof) == asset.found /\ proof.present

\* Mutant: the ownership check is left out.
OwnershipOkUnchecked(asset) == TRUE

\* Mutant: the asset's delegate is accepted as well as its owner.
OwnershipOkOrDelegate(asset) == asset.owner = Wallet \/ asset.delegate = Wallet

\* assetData.ownership.owner !== wallet.publicKey.toString()
OwnershipOk(asset) == asset.owner = Wallet

\* Mutant: the length check is left out.
ProofShapeOkAnyLength(proof) ==
    /\ proof.proofKind # "missing"
    /\ proof.proofKind = "array"

\* !assetProof.proof || !Array.isArray(assetProof.proof) || length === 0
ProofShapeOk(proof) ==
    /\ proof.proofKind # "missing"
    /\ proof.proofKind = "array"
    /\ Len(proof.nodes) # 0

\* new PublicKey(assetData.compression.tree) and new PublicKey(recipient)
KeysParse(asset, recipient) == asset.tree # BadTree

\* The message of the error the try block throws before the instruction is
\* built, "" when it throws none.
Validate(asset, proof, recipient) ==
    IF ~DataFetched(asset, proof) THEN "FetchDataFailed"
    ELSE IF ~OwnershipOk(asset) THEN "NotOwner"
    ELSE IF ~ProofShapeOk(proof) THEN "InvalidProof"
    ELSE IF ~KeysParse(asset, recipient) THEN "BuildFailed"
    ELSE ""

Meta(k, s, w) == [pubkey |-> k, isSigner |-> s, isWritable |-> w]

TreeAuthority(tree) == "authority"

\* Mutant: the proof nodes are appended last node first.
TransferKeysProofReversed(asset, proof, recipient) ==
    << Meta(TreeAuthority(asset.tree), FALSE, FALSE),
       Meta(Wallet, TRUE, FALSE),
       Meta(IF asset.delegate # "" THEN asset.delegate ELSE Wallet, FALSE, FALSE),
       Meta(recipient, FALSE, FALSE),
       Meta(asset.tree, FALSE, TRUE),
       Meta("noop", FALSE, FALSE),
       Meta("compression", FALSE, FALSE),
       Meta("system", FALSE, FALSE) >>
        \o [k \in 1 .. Len(proof.nodes) |->
               Meta(proof.nodes[Len(proof.nodes) + 1 - k], FALSE, FALSE)]

\* Mutant: the system program is left out of the fixed accounts.
TransferKeysNoSystemProgram(asset, proof, recipient) ==
    << Meta(TreeAuthority(asset.tree), FALSE, FALSE),
       Meta(Wallet, TRUE, FALSE),
       Meta(IF asset.delegate # "" THEN asset.delegate ELSE Wallet, FALSE, FALSE),
       Meta(recipient, FALSE, FALSE),
       Meta(asset.tree, FALSE, TRUE),
       Meta("noop", FALSE, FALSE),
       Meta("compression", FALSE, FALSE) >>
        \o [k \in 1 .. Len(proof.nodes) |-> Meta(proof.nodes[k], FALSE, FALSE)]

\* keys: [...] of the TransactionInstruction
TransferKeys(asset, proof, recipient) ==
    << Meta(TreeAuthority(asset.tree), FALSE, FALSE),
       Meta(Wallet, TRUE, FALSE),
       Meta(IF asset.delegate # "" THEN asset.delegate ELSE Wallet, FALSE, FALSE),
       Meta(recipient, FALSE, FALSE),
       Meta(asset.tree, FALSE, TRUE),
       Meta("noop", FALSE, FALSE),
       Meta("compression", FALSE, FALSE),
       Meta("system", FALSE, FALSE) >>
        \o [k \in 1 .. Len(proof.nodes) |-> Meta(proof.nodes[k], FALSE, FALSE)]

\* Mutant: every answer carries the blockhash of the first request.
LatestBlockhashShared == IF blockhashReqs > 0 THEN 1 ELSE 0

\* The blockhash in the answer to the getLatestBlockhash request that was
\* issued last: the answers to different requests are different values.
LatestBlockhash == blockhashReqs

\* The signature of a signed transaction identifies what it transfers.
SignatureOf(tx) == [mint |-> tx.mint, to |-> tx.to, blockhash |-> tx.blockhash]

\* Mutant: the signature is put at the front of the list.
PushedAtFront(sigs, outcome, sig) ==
    IF outcome = "Confirmed" THEN <<sig>> \o sigs ELSE sigs

\* signatures.push(signature) is reached only when confirmTransaction returned.
Pushed(sigs, outcome, sig) ==
    IF outcome = "Confirmed" THEN Append(sigs, sig) ELSE sigs

\* Mutant: no catch block, a job's error leaves the function.
AfterJobRethrows(j, outcome) ==
    IF outcome = "Failed" THEN [pc |-> "threw", i |-> j, timer |-> 0]
    ELSE IF j < N THEN [pc |-> "delay", i |-> j, timer |-> InterJobDelayMs]
    ELSE [pc |-> "loop", i |-> j + 1, timer |-> 0]

\* Mutant: a failed job is put back at the head of the loop.
AfterJobRequeues(j, outcome) ==
    IF outcome = "Failed" THEN [pc |-> "loop", i |-> j, timer |-> 0]
    ELSE IF j < N THEN [pc |-> "delay", i |-> j, timer |-> InterJobDelayMs]
    ELSE [pc |-> "loop", i |-> j + 1, timer |-> 0]

\* Mutant: after a failed job the loop starts over at the first entry.
AfterJobRestarts(j, outcome) ==
    IF outcome = "Failed" THEN [pc |-> "loop", i |-> 1, timer |-> 0]
    ELSE IF j < N THEN [pc |-> "delay", i |-> j, timer |-> InterJobDelayMs]
    ELSE [pc |-> "loop", i |-> j + 1, timer |-> 0]

\* Mutant: the loop goes on to the next entry without the delay.
AfterJobNoDelay(j, outcome) == [pc |-> "loop", i |-> j + 1, timer |-> 0]

\* Where the loop goes once a job's try/catch is left: the catch block only
\* logs, then "if (i < nftMints.length - 1) await delay(1000)".
AfterJob(j, outcome) ==
    IF j < N
    THEN [pc |-> "delay", i |-> j, timer |-> InterJobDelayMs]
    ELSE [pc |-> "loop", i |-> j + 1, timer |-> 0]

\* When iteration j is left its settled calls go with its locals; a call still
\* in flight goes on by itself.
Dropped(calls, j, idle) ==
    [k \in DOMAIN calls |->
        IF k = j /\ calls[k].st \in {"resolved", "rejected"} THEN idle ELSE calls[k]]

\* Iteration j has been left for a later one.
IterationLeft(j) == j < i /\ j < N

(***************************************************************************)
(* checkDASSupport: one getAsset probe of the RPC endpoint                 *)
(***************************************************************************)
\* The JSON-RPC code of "Method not found".
MethodNotFound == -32601

\* The numbers a code field is drawn from.
RpcCodes == {MethodNotFound, -32600, -32602, -32603, 0, 32601}

\* The HTTP statuses a response is drawn from; the function never reads it.
HttpStatuses == {200, 404, 429, 500}

\* The value of error.code: missing, null, a number, or a string spelling a
\* number (num is 0 where there is no number).
NoCode == [kind |-> "absent", num |-> 0]
CodeValues ==
    {NoCode, [kind |-> "null", num |-> 0]}
        \cup [kind : {"number", "string"}, num : RpcCodes]

\* The value of result.error: missing, null, a value without properties of
\* its own (a string, a number, a boolean), or an object.
NoErrorField == [kind |-> "absent", code |-> NoCode]
ErrorValues ==
    {[kind |-> k, code |-> NoCode] : k \in {"absent", "null", "primitive"}}
        \cup [kind : {"object"}, code : CodeValues]

\* What response.json() resolves to: null, a primitive, an array (a batch
\* answer), or an object with or without the fields result and error.
NoBody == [kind |-> "none", hasResult |-> FALSE, error |-> NoErrorField]
Bodies ==
    {[kind |-> k, hasResult |-> FALSE, error |-> NoErrorField] :
        k \in {"null", "primitive", "array"}}
        \cup [kind : {"object"}, hasResult : BOOLEAN, error : ErrorValues]

NoResponse ==
    [fetched |-> "pending", status |-> 0, decoded |-> "pending", body |-> NoBody]

\* result.error?.code for a result that is not null: undefined (NoCode) unless
\* error is an object that has the field.
OptionalCode(body) ==
    IF body.kind = "object" /\ body.error.kind = "object"
    THEN body.error.code
    ELSE NoCode

\* code != -32601 under loose equality: the string "-32601" equals the number.
CodeDiffersLoose(code) ==
    ~(code.kind \in {"number", "string"} /\ code.num = MethodNotFound)

\* code !== -32601: only the number -32601 is equal to it.
CodeDiffers(code) == ~(code.kind = "number" /\ code.num = MethodNotFound)

\* Reading result.error of null throws a TypeError inside the try block.
ReadThrows(body) == body.kind = "null"

\* The value of the function once response.json() has resolved to body.
SupportedFrom(body) ==
    IF ReadThrows(body) THEN FALSE ELSE CodeDiffers(OptionalCode(body))

(***************************************************************************)
(* Initial states: the arguments and the configuration of one call         *)
(***************************************************************************)
InitCall(entry) ==
    /\ walletConnected \in BOOLEAN
    /\ heliusUrl \in BOOLEAN
    /\ nftMints \in MintLists
    /\ recipients \in RecipientLists
    /\ pc = entry
    /\ i = 1
    /\ assetCall = [j \in 1 .. Len(nftMints) |-> IdleAsset]
    /\ proofCall = [j \in 1 .. Len(nftMints) |-> IdleProof]
    /\ transaction = NoTx
    /\ signature = NoSig
    /\ signatures = <<>>
    /\ jobLog = [j \in 1 .. Len(nftMints) |-> NewJobLog]
    /\ result = <<>>
    /\ thrown = ""
    /\ timer = 0
    /\ blockhashReqs = 0
    /\ regTx = NewRegTx
    /\ retries = 0
    /\ regSignature = NoRegSig
    /\ regLog = NewRegLog
    /\ regResult = NoRegSig
    /\ dasPc = "idle"
    /\ dasResponse = NoResponse
    /\ dasSupported = FALSE
    /\ logged = <<>>
    /\ publicKey = "none"
    /\ nfts = <<>>
    /\ loading = FALSE
    /\ loads = {}
    /\ parses = {}
    /\ listing = IdleListing
    /\ umi = IdleUmi

\* A transfer function is called by itself: the page plays no part.
InitAt(entry) ==
    /\ InitCall(entry)
    /\ connected = walletConnected
    /\ nftType = (IF entry = "call" THEN "cnft" ELSE "regular")
    /\ selectedNFTs = nftMints
    /\ addresses = recipients
    /\ sending = FALSE
    /\ toasts = <<>>
    /\ hs = "none"

\* transferCompressedNFTs is called.
Init == InitAt("call")

(***************************************************************************)
(* Actions                                                                 *)
(***************************************************************************)
\* The job's try/catch is left with `outcome`: log it, push the signature of
\* a confirmed transfer, drop the locals, go on as AfterJob says.
EndJob(j, outcome, reason, sig, ac, pcall, jl) ==
    /\ jobLog' = [jl EXCEPT ![j].outcome = outcome, ![j].reason = reason,
                            ![j].signature = sig]
    /\ signatures' = Pushed(signatures, outcome, sig)
    /\ assetCall' = ac
    /\ proofCall' = pcall
    /\ transaction' = NoTx
    /\ signature' = NoSig
    /\ pc' = AfterJob(j, outcome).pc
    /\ i' = AfterJob(j, outcome).i
    /\ timer' = AfterJob(j, outcome).timer
    /\ UNCHANGED <<inputs, umiState, fetcher, uploads, selector, console, probing, page, regular, result, thrown, blockhashReqs>>

\* The function's entry checks.
Call ==
    /\ pc = "call"
    /\ IF ~WalletReady
       THEN pc' = "threw" /\ thrown' = "Wallet not connected"
       ELSE IF ~CountsMatch(nftMints, recipients)
            THEN pc' = "threw" /\ thrown' = "Number of NFTs must match number of recipients"
            ELSE pc' = "loop" /\ thrown' = thrown
    /\ UNCHANGED <<inputs, umiState, fetcher, uploads, selector, console, probing, page, regular, i, assetCall, proofCall, transaction, signature,
                   signatures, jobLog, result, timer, blockhashReqs>>

\* What follows the Promise.all of job j once the calls stand at ac, pcall.
Continue(j, ac, pcall, jl) ==
    LET all == PromiseAll(ac[j], pcall[j])
        reason == Validate(ac[j].val, pcall[j].val, recipients[j])
    IN  IF all = "pending"
        THEN /\ assetCall' = ac
             /\ proofCall' = pcall
             /\ jobLog' = jl
             /\ pc' = "awaitAll"
             /\ UNCHANGED <<inputs, umiState, fetcher, uploads, selector, console, probing, page, regular, i, transaction, signature, signatures, result,
                            thrown, timer, blockhashReqs>>
        ELSE IF all = "rejected"
        THEN EndJob(j, "Failed", pcall[j].err, NoSig, ac, pcall, jl)
        ELSE IF reason # ""
        THEN EndJob(j, "Failed", reason, NoSig, ac, pcall, jl)
        ELSE /\ transaction' =
                    [keys |-> TransferKeys(ac[j].val, pcall[j].val, recipients[j]),
                     mint |-> nftMints[j], to |-> recipients[j], blockhash |-> 0,
                     feePayer |-> ""]
             /\ jobLog' = [jl EXCEPT ![j].ixBuilt = TRUE, ![j].blockhashReqs = @ + 1]
             /\ blockhashReqs' = blockhashReqs + 1
             /\ assetCall' = ac
             /\ proofCall' = pcall
             /\ pc' = "blockhash"
             /\ UNCHANGED <<inputs, umiState, fetcher, uploads, selector, console, probing, page, regular, i, signature, signatures, result, thrown, timer>>

\* The top of the loop: return after the last entry, skip an entry with an
\* empty mint or recipient, else start the job's two fetches.
LoopTop ==
    /\ pc = "loop"
    /\ IF i > N
       THEN /\ pc' = "returned"
            /\ logged' = Append(logged, Len(signatures))
            /\ result' = signatures
            /\ UNCHANGED <<inputs, umiState, fetcher, uploads, selector, probing, page, regular, i, assetCall, proofCall, transaction, signature,
                           signatures, jobLog, thrown, timer, blockhashReqs>>
       ELSE IF nftMints[i] = "" \/ recipients[i] = ""
       THEN /\ jobLog' = [jobLog EXCEPT ![i].outcome = "Skipped",
                                        ![i].reason = "InvalidData"]
            /\ i' = i + 1
            /\ UNCHANGED <<inputs, umiState, fetcher, uploads, selector, console, probing, page, regular, pc, assetCall, proofCall, transaction, signature,
                           signatures, result, thrown, timer, blockhashReqs>>
       ELSE Continue(i,
                     [assetCall EXCEPT ![i] = StartAsset],
                     [proofCall EXCEPT ![i] = StartProof],
                     [jobLog EXCEPT ![i].outcome = "Running",
                                    ![i].getAssetReqs = StartAsset.reqs])

\* The getAsset request of job j is answered.
AssetResponse(j, resp) ==
    /\ assetCall[j].st = "pending"
    /\ LET ac == [assetCall EXCEPT ![j] = AssetOnResponse(@, resp)]
           jl == [jobLog EXCEPT ![j].getAssetReqs = ac[j].reqs]
       IN  IF pc = "awaitAll" /\ i = j
           THEN Continue(j, ac, proofCall, jl)
           ELSE /\ assetCall' = IF IterationLeft(j) THEN Dropped(ac, j, IdleAsset) ELSE ac
                /\ jobLog' = jl
                /\ UNCHANGED <<inputs, umiState, fetcher, uploads, selector, console, probing, page, regular, pc, i, proofCall, transaction, signature,
                               signatures, result, thrown, timer, blockhashReqs>>

\* A getAssetProof request of job j is answered.
ProofResponse(j, resp) ==
    /\ proofCall[j].st = "pending"
    /\ LET pcall == [proofCall EXCEPT ![j] = Answered(ProofOnResponse(@, resp), @, resp)]
       IN  IF pc = "awaitAll" /\ i = j
           THEN Continue(j, assetCall, pcall, jobLog)
           ELSE /\ proofCall' = IF IterationLeft(j) THEN Dropped(pcall, j, IdleProof)
                                ELSE pcall
                /\ jobLog' = jobLog
                /\ UNCHANGED <<inputs, umiState, fetcher, uploads, selector, console, probing, page, regular, pc, i, assetCall, transaction, signature,
                               signatures, result, thrown, timer, blockhashReqs>>

\* The backoff delay of job j's proof fetch is over.
ProofTimer(j) ==
    /\ proofCall[j].st = "backoff"
    /\ proofCall' = [proofCall EXCEPT ![j] = ProofOnTimer(@)]
    /\ UNCHANGED <<inputs, umiState, fetcher, uploads, selector, console, probing, page, regular, pc, i, assetCall, transaction, signature, signatures,
                   jobLog, result, thrown, timer, blockhashReqs>>

\* connection.getLatestBlockhash() answers; on success signTransaction is called.
BlockhashResponse(ok) ==
    /\ pc = "blockhash"
    /\ IF ok
       THEN /\ transaction' = [transaction EXCEPT !.blockhash = LatestBlockhash,
                                                  !.feePayer = Wallet]
            /\ jobLog' = [jobLog EXCEPT ![i].signReqs = @ + 1]
            /\ pc' = "sign"
            /\ UNCHANGED <<inputs, umiState, fetcher, uploads, selector, console, probing, page, regular, i, assetCall, proofCall, signature, signatures,
                           result, thrown, timer, blockhashReqs>>
       ELSE EndJob(i, "Failed", "BlockhashFailed", NoSig, assetCall, proofCall, jobLog)

\* wallet.signTransaction answers; on success sendRawTransaction is called.
SignResponse(ok) ==
    /\ pc = "sign"
    /\ IF ok
       THEN /\ jobLog' = [jobLog EXCEPT ![i].sendReqs = @ + 1]
            /\ pc' = "send"
            /\ UNCHANGED <<inputs, umiState, fetcher, uploads, selector, console, probing, page, regular, i, assetCall, proofCall, transaction, signature,
                           signatures, result, thrown, timer, blockhashReqs>>
       ELSE EndJob(i, "Failed", "SignFailed", NoSig, assetCall, proofCall, jobLog)

\* sendRawTransaction answers; on success confirmTransaction is called.
SendResponse(ok) ==
    /\ pc = "send"
    /\ IF ok
       THEN /\ signature' = SignatureOf(transaction)
            /\ jobLog' = [jobLog EXCEPT ![i].confirmReqs = @ + 1]
            /\ pc' = "confirm"
            /\ UNCHANGED <<inputs, umiState, fetcher, uploads, selector, console, probing, page, regular, i, assetCall, proofCall, transaction, signatures,
                           result, thrown, timer, blockhashReqs>>
       ELSE EndJob(i, "Failed", "SendFailed", NoSig, assetCall, proofCall, jobLog)

\* confirmTransaction answers; on success the signature is pushed.
ConfirmResponse(ok) ==
    /\ pc = "confirm"
    /\ IF ok
       THEN EndJob(i, "Confirmed", "", signature, assetCall, proofCall, jobLog)
       ELSE EndJob(i, "Failed", "ConfirmFailed", NoSig, assetCall, proofCall, jobLog)

\* The delay between two jobs is over: i++, and iteration i is left.
DelayDone ==
    /\ pc = "delay"
    /\ pc' = "loop"
    /\ i' = i + 1
    /\ timer' = 0
    /\ assetCall' = Dropped(assetCall, i, IdleAsset)
    /\ proofCall' = Dropped(proofCall, i, IdleProof)
    /\ jobLog' = [jobLog EXCEPT ![i + 1].delayBefore = timer]
    /\ UNCHANGED <<inputs, umiState, fetcher, uploads, selector, console, probing, page, regular, transaction, signature, signatures, result, thrown,
                   blockhashReqs>>

Next ==
    \/ Call
    \/ LoopTop
    \/ \E j \in Jobs, resp \in AssetResponses : AssetResponse(j, resp)
    \/ \E j \in Jobs, resp \in ProofResponses : ProofResponse(j, resp)
    \/ \E j \in Jobs : ProofTimer(j)
    \/ \E ok \in BOOLEAN : BlockhashResponse(ok)
    \/ \E ok \in BOOLEAN : SignResponse(ok)
    \/ \E ok \in BOOLEAN : SendResponse(ok)
    \/ \E ok \in BOOLEAN : ConfirmResponse(ok)
    \/ DelayDone

Spec == Init /\ [][Next]_vars

\* Every external call (fetch, timer, RPC request, wallet request) eventually
\* returns or throws, and the event loop runs every continuation that is ready.
Fairness ==
    /\ WF_vars(Call)
    /\ WF_vars(LoopTop)
    /\ WF_vars(\E j \in Jobs, resp \in AssetResponses : AssetResponse(j, resp))
    /\ WF_vars(\E j \in Jobs, resp \in ProofResponses : ProofResponse(j, resp))
    /\ WF_vars(\E j \in Jobs : ProofTimer(j))
    /\ WF_vars(\E ok \in BOOLEAN : BlockhashResponse(ok))
    /\ WF_vars(\E ok \in BOOLEAN : SignResponse(ok))
    /\ WF_vars(\E ok \in BOOLEAN : SendResponse(ok))
    /\ WF_vars(\E ok \in BOOLEAN : ConfirmResponse(ok))
    /\ WF_vars(DelayDone)

SpecLive == Spec /\ Fairness

(***************************************************************************)
(* transferRegularNFTs                                                     *)
(***************************************************************************)
\* let retries = 3
RegularRetries == 3

\* new PublicKey(s) throws on a string that is no base58 key of 32 bytes.
IsPublicKey(s) == s # "" /\ s # BadTree

\* createAssociatedTokenAccountInstruction and createSPLTransferInstruction
\* for entry k.
CreateAtaIx(k) ==
    [kind |-> "createATA", mint |-> nftMints[k], from |-> Wallet, to |-> recipients[k]]

TransferIx(k) ==
    [kind |-> "transfer", mint |-> nftMints[k], from |-> Wallet, to |-> recipients[k]]

\* Mutant: the create instruction is added whatever getAccount answered.
AddEntryIxsAlwaysCreates(ixs, k, exists) == ixs \o <<CreateAtaIx(k), TransferIx(k)>>

\* The instructions entry k adds: the create instruction when getAccount
\* threw, then the transfer instruction.
AddEntryIxs(ixs, k, exists) ==
    ixs \o (IF exists THEN <<>> ELSE <<CreateAtaIx(k)>>) \o <<TransferIx(k)>>

RegSignatureOf(tx) == [sent |-> TRUE, ixs |-> tx.ixs, blockhash |-> tx.blockhash]

\* Mutant: the same wait after every failed attempt.
RetryWaitFlat(kind) == BaseDelayMs

\* The wait after a failed attempt: 2 s on a rate-limit error, 1 s otherwise.
RetryWait(kind) == IF kind = "rateLimit" THEN 2000 ELSE 1000

\* transferRegularNFTs is called.
InitRegular == InitAt("r_call")

\* The loop over the entries stands at k with the transaction built so far:
\* after the last entry getLatestBlockhash is called; an entry whose mint or
\* recipient is no public key throws; else getAccount is called for the
\* recipient's token account.
RegLoop(k, tx, log) ==
    /\ i' = k
    /\ regTx' = tx
    /\ IF k > N
       THEN /\ pc' = "r_blockhash"
            /\ blockhashReqs' = blockhashReqs + 1
            /\ regLog' = log
            /\ thrown' = thrown
       ELSE IF ~IsPublicKey(nftMints[k]) \/ ~IsPublicKey(recipients[k])
       THEN /\ pc' = "r_threw"
            /\ thrown' = "Invalid public key input"
            /\ regLog' = log
            /\ blockhashReqs' = blockhashReqs
       ELSE /\ pc' = "r_getAccount"
            /\ regLog' = [log EXCEPT !.getAccountReqs = @ + 1]
            /\ UNCHANGED <<thrown, blockhashReqs>>
    /\ UNCHANGED <<inputs, umiState, fetcher, uploads, selector, console, probing, page, compressed, retries, regSignature, regResult, timer>>

\* The function's entry checks, then the first turn of the loop.
RegCall ==
    /\ pc = "r_call"
    /\ IF ~WalletReady
       THEN /\ pc' = "r_threw"
            /\ thrown' = "Wallet not connected"
            /\ UNCHANGED <<inputs, umiState, fetcher, uploads, selector, console, probing, page, compressed, regular, i, timer, blockhashReqs>>
       ELSE IF ~CountsMatch(nftMints, recipients)
       THEN /\ pc' = "r_threw"
            /\ thrown' = "Number of NFTs must match number of recipients"
            /\ UNCHANGED <<inputs, umiState, fetcher, uploads, selector, console, probing, page, compressed, regular, i, timer, blockhashReqs>>
       ELSE RegLoop(1, NewRegTx, regLog)

\* getAccount answers: a missing account adds the create instruction; the
\* transfer instruction is added either way.
GetAccountResponse(exists) ==
    /\ pc = "r_getAccount"
    /\ RegLoop(i + 1, [regTx EXCEPT !.ixs = AddEntryIxs(@, i, exists)],
               [regLog EXCEPT !.lookupFailed = Append(@, ~exists)])

\* getLatestBlockhash answers (outside the retry loop): the transaction gets
\* its blockhash and fee payer, retries = 3, and the first attempt signs.
RegBlockhashResponse(ok) ==
    /\ pc = "r_blockhash"
    /\ IF ok
       THEN /\ regTx' = [regTx EXCEPT !.blockhash = LatestBlockhash, !.feePayer = Wallet]
            /\ retries' = RegularRetries
            /\ regLog' = [regLog EXCEPT !.signReqs = @ + 1]
            /\ pc' = "r_sign"
            /\ thrown' = thrown
       ELSE /\ pc' = "r_threw"
            /\ thrown' = "failed to get recent blockhash"
            /\ UNCHANGED <<regTx, retries, regLog>>
    /\ UNCHANGED <<inputs, umiState, fetcher, uploads, selector, console, probing, page, compressed, i, timer, blockhashReqs, regSignature, regResult>>

\* The catch block of an attempt: retries--, throw at 0, else wait.
RegCatch(kind) ==
    /\ retries' = retries - 1
    /\ IF retries - 1 = 0
       THEN /\ pc' = "r_threw"
            /\ thrown' = "Transaction failed after 3 attempts"
            /\ regLog' = [regLog EXCEPT !.failures = Append(@, kind)]
            /\ UNCHANGED timer
       ELSE /\ pc' = "r_wait"
            /\ timer' = RetryWait(kind)
            /\ regLog' = [regLog EXCEPT !.failures = Append(@, kind),
                                        !.waits = Append(@, RetryWait(kind))]
            /\ thrown' = thrown
    /\ UNCHANGED <<inputs, umiState, fetcher, uploads, selector, console, probing, page, compressed, i, blockhashReqs, regTx, regSignature, regResult>>

\* wallet.signTransaction answers; on success sendRawTransaction is called.
RegSignResponse(resp) ==
    /\ pc = "r_sign"
    /\ IF resp = "ok"
       THEN /\ regLog' = [regLog EXCEPT !.sendReqs = @ + 1,
                                        !.signedBlockhashes = Append(@, regTx.blockhash)]
            /\ pc' = "r_send"
            /\ UNCHANGED <<inputs, umiState, fetcher, uploads, selector, console, probing, page, compressed, i, thrown, timer, blockhashReqs, regTx,
                           retries, regSignature, regResult>>
       ELSE RegCatch(resp)

\* sendRawTransaction answers; on success confirmTransaction is called.
RegSendResponse(resp) ==
    /\ pc = "r_send"
    /\ IF resp = "ok"
       THEN /\ regSignature' = RegSignatureOf(regTx)
            /\ regLog' = [regLog EXCEPT !.confirmReqs = @ + 1]
            /\ pc' = "r_confirm"
            /\ UNCHANGED <<inputs, umiState, fetcher, uploads, selector, console, probing, page, compressed, i, thrown, timer, blockhashReqs, regTx,
                           retries, regResult>>
       ELSE RegCatch(resp)

\* confirmTransaction answers; on success the loop breaks and the function
\* returns the signature.
RegConfirmResponse(resp) ==
    /\ pc = "r_confirm"
    /\ IF resp = "ok"
       THEN /\ pc' = "r_returned"
            /\ regResult' = regSignature
            /\ UNCHANGED <<inputs, umiState, fetcher, uploads, selector, console, probing, page, compressed, i, thrown, timer, blockhashReqs, regTx,
                           retries, regSignature, regLog>>
       ELSE RegCatch(resp)

\* The wait after a failed attempt is over: the next attempt signs the same
\* transaction.
RegWaitDone ==
    /\ pc = "r_wait"
    /\ timer' = 0
    /\ regLog' = [regLog EXCEPT !.signReqs = @ + 1]
    /\ pc' = "r_sign"
    /\ UNCHANGED <<inputs, umiState, fetcher, uploads, selector, console, probing, page, compressed, i, thrown, blockhashReqs, regTx, retries,
                   regSignature, regResult>>

NextRegular ==
    \/ RegCall
    \/ \E exists \in BOOLEAN : GetAccountResponse(exists)
    \/ \E ok \in BOOLEAN : RegBlockhashResponse(ok)
    \/ \E resp \in RegResponses : RegSignResponse(resp)
    \/ \E resp \in RegResponses : RegSendResponse(resp)
    \/ \E resp \in RegResponses : RegConfirmResponse(resp)
    \/ RegWaitDone

SpecRegular == InitRegular /\ [][NextRegular]_vars

\* Either transfer function is called (handleSend picks by NFT type).
NextTransfer == Next \/ NextRegular

SpecTransfer == (Init \/ InitRegular) /\ [][NextTransfer]_vars

(***************************************************************************)
(* The Index page: handleSend                                              *)
(***************************************************************************)
\* The two versions of the page in the repository.
Variants == {"Index", "part_005"}

Toast(kind, count, msg) == [kind |-> kind, count |-> count, msg |-> msg]

\* The page before the Send button is pressed: the selection and the address
\* list are what handleSend will pass on; a wallet that is not connected has
\* no public key.
InitPage ==
    /\ InitCall("idle")
    /\ connected \in BOOLEAN
    /\ walletConnected => connected
    /\ nftType \in {"regular", "cnft"}
    /\ selectedNFTs = nftMints
    /\ addresses = recipients
    /\ sending = FALSE
    /\ toasts = <<>>
    /\ hs = "idle"

\* handleSend up to its first await: the three guards return with an error
\* toast; else setSending(true), the loading toast, and the transfer function
\* for the NFT type is called with the selection and the addresses.
HandleSend ==
    /\ hs = "idle"
    /\ IF ~connected
       THEN /\ toasts' = Append(toasts, Toast("error", 0, "connect wallet"))
            /\ hs' = "done"
            /\ UNCHANGED <<pc, sending>>
       ELSE IF Len(addresses) = 0
       THEN /\ toasts' = Append(toasts, Toast("error", 0, "no recipient"))
            /\ hs' = "done"
            /\ UNCHANGED <<pc, sending>>
       ELSE IF ~CountsMatch(selectedNFTs, addresses)
       THEN /\ toasts' = Append(toasts, Toast("error", Len(addresses), "one NFT per recipient"))
            /\ hs' = "done"
            /\ UNCHANGED <<pc, sending>>
       ELSE /\ sending' = TRUE
            /\ toasts' = Append(toasts, Toast("loading", Len(selectedNFTs), "Sending"))
            /\ pc' = (IF nftType = "cnft" THEN "call" ELSE "r_call")
            /\ hs' = "awaiting"
    /\ UNCHANGED <<inputs, umiState, fetcher, uploads, selector, console, probing, compressed, regular, i, thrown, timer, blockhashReqs,
                   connected, nftType, selectedNFTs, addresses>>

\* The number of signatures handleSend collected from the call that returned.
Collected == IF pc = "returned" THEN Len(result) ELSE 1

\* The awaited transfer call has settled, in either version of the page. On
\* return: the success toast with
\* selectedNFTs.length, the selection and the addresses are reset (the later
\* version adds an error toast when it collected no signature). On a throw:
\* the error toast. Either way setSending(false).
HandleSendSettled(variant) ==
    /\ hs = "awaiting"
    /\ pc \in {"returned", "threw", "r_returned", "r_threw"}
    /\ IF pc \in {"returned", "r_returned"}
       THEN /\ toasts' =
                  Append(toasts, Toast("success", Len(selectedNFTs), "Successfully sent"))
                      \o (IF variant = "part_005" /\ Collected = 0
                          THEN <<Toast("error", 0, "No NFTs were transferred")>>
                          ELSE <<>>)
            /\ selectedNFTs' = <<>>
            /\ addresses' = <<>>
       ELSE /\ toasts' = Append(toasts, Toast("error", 0, thrown))
            /\ UNCHANGED <<selectedNFTs, addresses>>
    /\ sending' = FALSE
    /\ hs' = "done"
    /\ UNCHANGED <<inputs, umiState, fetcher, uploads, selector, console, probing, compressed, regular, pc, i, thrown, timer, blockhashReqs,
                   connected, nftType>>

NextPage ==
    \/ HandleSend
    \/ \E variant \in Variants : HandleSendSettled(variant)
    \/ NextTransfer

SpecPage == InitPage /\ [][NextPage]_vars

(***************************************************************************)
(* The Index page: the Send button, pressed again after a send             *)
(***************************************************************************)
\* The sends of one visit of the page.
MaxSends == 2

\* The loading toasts shown so far: one per send that passed the guards.
Sends == Cardinality({k \in 1 .. Len(toasts) : toasts[k].kind = "loading"})

\* Mutant: the button stays enabled while a send is running.
SendButtonEnabledWhileSending ==
    /\ Len(addresses) > 0
    /\ connected
    /\ Len(selectedNFTs) = Len(addresses)

\* The Send button is rendered (addresses.length > 0) and not disabled.
SendButtonEnabled ==
    /\ Len(addresses) > 0
    /\ connected
    /\ Len(selectedNFTs) = Len(addresses)
    /\ ~sending

\* The button is clicked: handleSend passes its guards, setSending(true), the
\* loading toast, and a new call of the transfer function for the NFT type
\* with the selection and the addresses.
ClickSend ==
    /\ SendButtonEnabled
    /\ Sends < MaxSends
    /\ selectedNFTs = nftMints
    /\ addresses = recipients
    /\ sending' = TRUE
    /\ toasts' = Append(toasts, Toast("loading", Len(selectedNFTs), "Sending"))
    /\ hs' = "awaiting"
    /\ pc' = (IF nftType = "cnft" THEN "call" ELSE "r_call")
    /\ i' = 1
    /\ assetCall' = [j \in 1 .. Len(nftMints) |-> IdleAsset]
    /\ proofCall' = [j \in 1 .. Len(nftMints) |-> IdleProof]
    /\ transaction' = NoTx
    /\ signature' = NoSig
    /\ signatures' = <<>>
    /\ jobLog' = [j \in 1 .. Len(nftMints) |-> NewJobLog]
    /\ result' = <<>>
    /\ thrown' = ""
    /\ timer' = 0
    /\ regTx' = NewRegTx
    /\ retries' = 0
    /\ regSignature' = NoRegSig
    /\ regLog' = NewRegLog
    /\ regResult' = NoRegSig
    /\ UNCHANGED <<inputs, umiState, fetcher, uploads, selector, console, probing, blockhashReqs, connected,
                   nftType, selectedNFTs, addresses>>

NextSend ==
    \/ ClickSend
    \/ \E variant \in Variants : HandleSendSettled(variant)
    \/ NextTransfer

\* The page as the user has filled it: the selection holds mints of the
\* loaded list and the address list holds validated addresses, so no entry
\* is empty.
InitSend ==
    /\ InitPage
    /\ \A k \in 1 .. Len(selectedNFTs) : selectedNFTs[k] # ""
    /\ \A k \in 1 .. Len(addresses) : addresses[k] # ""

SpecSend == InitSend /\ [][NextSend]_vars

\* The page under the assumption that every external call settles and the
\* event loop keeps running: while a step of the transfer call or the
\* resumption of handleSend is possible, one of them is eventually taken.
SpecSendLive ==
    /\ SpecSend
    /\ WF_vars(NextTransfer \/ \E variant \in Variants : HandleSendSettled(variant))

(***************************************************************************)
(* The AddressInput component                                              *)
(***************************************************************************)
\* The longest pasted text (in tokens) and the longest CSV file (in rows).
MaxTokens == 4

\* What stands between two delimiters of a pasted text, or in the first
\* column of a CSV row: nothing, an address, or something that is no address.
AddressTokens == {"", "rcptA", "rcptB", "rcptC", BadTree}

Texts == UNION {[1 .. n -> AddressTokens] : n \in 0 .. MaxTokens}

Range(seq) == {seq[k] : k \in 1 .. Len(seq)}

\* [...new Set(parsed)]: the first occurrence of every element, in order.
RECURSIVE Unique(_)
Unique(seq) ==
    IF seq = <<>> THEN <<>>
    ELSE LET front == Unique(SubSeq(seq, 1, Len(seq) - 1))
             last == seq[Len(seq)]
         IN  IF last \in Range(front) THEN front ELSE Append(front, last)

\* parseAddresses: split at the delimiters, drop the empty pieces, drop
\* repeated addresses.
ParseAddresses(text) ==
    LET NotEmpty(a) == a # ""
    IN  Unique(SelectSeq(text, NotEmpty))

\* validateSolanaAddress
ValidateSolanaAddress(a) == IsPublicKey(a)

\* The valid addresses of a list that are not in the address list yet, each
\* as often as it stands in the list.
NewValid(list) ==
    LET Fresh(a) == ValidateSolanaAddress(a) /\ a \notin Range(addresses)
    IN  SelectSeq(list, Fresh)

\* The first-column cells of a parsed CSV file that are taken as addresses:
\* row 0 is the header, empty cells are dropped.
CsvAddresses(rows) ==
    LET NotEmpty(a) == a # ""
    IN  IF rows = <<>> THEN <<>> ELSE SelectSeq(Tail(rows), NotEmpty)

\* The component is mounted with an empty address list; nothing else of the
\* page moves.
InitAddressInput ==
    /\ InitCall("idle")
    /\ ~walletConnected
    /\ ~heliusUrl
    /\ nftMints = <<>>
    /\ recipients = <<>>
    /\ connected = FALSE
    /\ nftType = "regular"
    /\ selectedNFTs = <<>>
    /\ addresses = <<>>
    /\ sending = FALSE
    /\ toasts = <<>>
    /\ hs = "idle"

\* onAddressesChange([...addresses, ...validAddresses]) when there are any.
AddAddresses(valid) ==
    /\ addresses' = addresses \o valid
    /\ UNCHANGED <<inputs, umiState, fetcher, uploads, selector, console, probing, compressed, regular, pc, i, thrown, timer, blockhashReqs,
                   connected, nftType, selectedNFTs, sending, toasts, hs>>

\* The Add button: the pasted text is parsed and its new valid addresses are
\* appended.
HandlePaste(text) == AddAddresses(NewValid(ParseAddresses(text)))

\* A CSV file is uploaded and its parse completes before any other input: the
\* new valid addresses of its first column are appended.
HandleCSVUpload(rows) == AddAddresses(NewValid(CsvAddresses(rows)))

\* The X button of an address: every entry equal to it is removed.
RemoveAddress(a) ==
    /\ a \in Range(addresses)
    /\ LET Other(b) == b # a
       IN  addresses' = SelectSeq(addresses, Other)
    /\ UNCHANGED <<inputs, umiState, fetcher, uploads, selector, console, probing, compressed, regular, pc, i, thrown, timer, blockhashReqs,
                   connected, nftType, selectedNFTs, sending, toasts, hs>>

NextAddressInput ==
    \/ \E text \in Texts : HandlePaste(text)
    \/ \E rows \in Texts : HandleCSVUpload(rows)
    \/ \E a \in AddressTokens : RemoveAddress(a)

SpecAddressInput == InitAddressInput /\ [][NextAddressInput]_vars

(***************************************************************************)
(* The AddressInput component: a CSV parse that completes later            *)
(***************************************************************************)
\* The Papa.parse calls that may be pending at once.
MaxParses == 1

\* The pasted texts and the CSV files while pending parses are watched.
AsyncTexts ==
    {text \in Texts :
        Len(text) <= 2 /\ \A k \in 1 .. Len(text) : text[k] \in {"rcptA", "rcptB", "rcptC"}}

\* The new valid addresses of list against the address list known.
NewValidAgainst(list, known) ==
    LET Fresh(a) == ValidateSolanaAddress(a) /\ a \notin Range(known)
    IN  SelectSeq(list, Fresh)

\* handleCSVUpload: Papa.parse is started on the file; its complete callback
\* keeps the addresses prop of the render that started it.
CSVUploadStart(rows) ==
    /\ Cardinality(parses) < MaxParses
    /\ parses' = parses \cup {[rows |-> rows, addresses |-> addresses]}
    /\ UNCHANGED <<inputs, umiState, fetcher, selector, console, probing, compressed, regular, pc, i, thrown,
                   timer, blockhashReqs, page>>

\* The complete callback of a pending parse runs: the valid addresses of the
\* file that the callback's own address list does not hold are appended to
\* that list, and the result becomes the address list.
CSVParseComplete(parse) ==
    /\ parse \in parses
    /\ parses' = parses \ {parse}
    /\ LET valid == NewValidAgainst(CsvAddresses(parse.rows), parse.addresses)
       IN  addresses' = (IF valid # <<>> THEN parse.addresses \o valid ELSE addresses)
    /\ UNCHANGED <<inputs, umiState, fetcher, selector, console, probing, compressed, regular, pc, i, thrown,
                   timer, blockhashReqs, connected, nftType, selectedNFTs, sending, toasts,
                   hs>>

\* The error callback of a pending parse runs: a toast only.
CSVParseError(parse) ==
    /\ parse \in parses
    /\ parses' = parses \ {parse}
    /\ UNCHANGED <<inputs, umiState, fetcher, selector, console, probing, compressed, regular, pc, i, thrown,
                   timer, blockhashReqs, page>>

NextAddressInputAsync ==
    \/ \E text \in AsyncTexts : HandlePaste(text)
    \/ \E a \in AddressTokens : RemoveAddress(a)
    \/ \E rows \in AsyncTexts : CSVUploadStart(rows)
    \/ \E parse \in parses : CSVParseComplete(parse)
    \/ \E parse \in parses : CSVParseError(parse)

SpecAddressInputAsync == InitAddressInput /\ [][NextAddressInputAsync]_vars

(***************************************************************************)
(* The NFTSelector component on the Index page                             *)
(***************************************************************************)
OtherWallet == "wallet2"

PublicKeys == {"none", Wallet, OtherWallet}

NftTypes == {"regular", "cnft"}

\* What the indexing service lists for a wallet and an asset family.
Holdings(w, t) ==
    IF w = Wallet
    THEN (IF t = "regular" THEN <<"mintA", "mintB">> ELSE <<"cnftA", "cnftB">>)
    ELSE IF w = OtherWallet
    THEN (IF t = "regular" THEN <<"mintC">> ELSE <<>>)
    ELSE <<>>

\* The texts pasted into the address box while the selector is watched.
SelectorTexts ==
    {text \in Texts : Len(text) <= 2 /\ \A k \in 1 .. Len(text) : text[k] \in {"rcptA", "rcptB"}}

\* Index renders <NFTSelector> only when addresses.length > 0.
Mounted(addrs) == Len(addrs) > 0

\* The selector shows its list and its buttons: it is mounted, the wallet is
\* connected and no load is shown as running.
SelectorShown == Mounted(addresses) /\ connected /\ ~loading

\* loadNFTs as called by a render with wallet key w and NFT type t: nothing
\* without a key, else setLoading(true) and the fetch for (w, t) is issued.
LoadStarted(w, t, pending) ==
    IF w = "none" THEN pending ELSE pending \cup {[wallet |-> w, type |-> t]}

\* The page is opened: no wallet, no address, nothing selected.
InitSelector ==
    /\ InitCall("idle")
    /\ ~walletConnected
    /\ ~heliusUrl
    /\ nftMints = <<>>
    /\ recipients = <<>>
    /\ connected = FALSE
    /\ nftType = "regular"
    /\ selectedNFTs = <<>>
    /\ addresses = <<>>
    /\ sending = FALSE
    /\ toasts = <<>>
    /\ hs = "idle"

\* The address list becomes addrs and the page is rendered again: the
\* selector is mounted with an empty list and its effect loads when a wallet
\* is connected; it is unmounted with its state and its running loads; or it
\* stays as it is.
AddressesChanged(addrs) ==
    /\ addresses' = addrs
    /\ IF Mounted(addrs) /\ ~Mounted(addresses)
       THEN /\ nfts' = <<>>
            /\ loads' = (IF connected THEN LoadStarted(publicKey, nftType, {}) ELSE {})
            /\ loading' = (connected /\ publicKey # "none")
       ELSE IF ~Mounted(addrs)
       THEN nfts' = <<>> /\ loads' = {} /\ loading' = FALSE
       ELSE UNCHANGED <<nfts, loads, loading>>
    /\ UNCHANGED <<inputs, umiState, fetcher, uploads, console, probing, compressed, regular, pc, i, thrown, timer,
                   blockhashReqs, connected, nftType, selectedNFTs, sending, toasts, hs,
                   publicKey>>

\* AddressInput's Add button under the page.
PageHandlePaste(text) ==
    /\ NewValid(ParseAddresses(text)) # <<>>
    /\ AddressesChanged(addresses \o NewValid(ParseAddresses(text)))

\* The X button of an address on the page.
PageRemoveAddress(a) ==
    /\ a \in Range(addresses)
    /\ LET Other(b) == b # a
       IN  AddressesChanged(SelectSeq(addresses, Other))

\* The wallet adapter connects, disconnects or switches account; the effect
\* on [connected, publicKey, nftType] loads for the new key.
WalletChange(w) ==
    /\ w # publicKey
    /\ publicKey' = w
    /\ connected' = (w # "none")
    /\ IF Mounted(addresses) /\ w # "none"
       THEN loads' = LoadStarted(w, nftType, loads) /\ loading' = TRUE
       ELSE UNCHANGED <<loads, loading>>
    /\ UNCHANGED <<inputs, umiState, fetcher, uploads, console, probing, compressed, regular, pc, i, thrown, timer,
                   blockhashReqs, nftType, selectedNFTs, addresses, sending, toasts, hs,
                   nfts>>

\* The NFT type tab is switched: setNftType, and the selector's effect loads
\* the list of the new type.
SetNftType(t) ==
    /\ t # nftType
    /\ nftType' = t
    /\ IF Mounted(addresses) /\ connected /\ publicKey # "none"
       THEN loads' = LoadStarted(publicKey, t, loads) /\ loading' = TRUE
       ELSE UNCHANGED <<loads, loading>>
    /\ UNCHANGED <<inputs, umiState, fetcher, uploads, console, probing, compressed, regular, pc, i, thrown, timer,
                   blockhashReqs, connected, selectedNFTs, addresses, sending, toasts, hs,
                   publicKey, nfts>>

\* The Refresh button, shown with an empty list.
Refresh ==
    /\ SelectorShown
    /\ nfts = <<>>
    /\ publicKey # "none"
    /\ loads' = LoadStarted(publicKey, nftType, loads)
    /\ loading' = TRUE
    /\ UNCHANGED <<inputs, umiState, fetcher, uploads, console, probing, compressed, regular, pc, i, thrown, timer,
                   blockhashReqs, page, publicKey, nfts>>

\* The fetch of a loadNFTs call settles: setNfts with what was fetched for
\* the key and type of that call, or the catch block; then setLoading(false).
LoadResponse(load, ok) ==
    /\ load \in loads
    /\ loads' = loads \ {load}
    /\ nfts' = (IF ok THEN Holdings(load.wallet, load.type) ELSE nfts)
    /\ loading' = FALSE
    /\ UNCHANGED <<inputs, umiState, fetcher, uploads, console, probing, compressed, regular, pc, i, thrown, timer,
                   blockhashReqs, page, publicKey>>

\* toggleNFT: a selected id is taken out; another is added unless the
\* selection already has addressCount entries.
Toggled(selected, id, addressCount) ==
    IF id \in Range(selected)
    THEN LET Other(b) == b # id IN SelectSeq(selected, Other)
    ELSE IF Len(selected) >= addressCount /\ addressCount > 0
    THEN selected
    ELSE Append(selected, id)

\* handleAutoSelect: the first addressCount mints of the list, or all of them
\* when there are fewer.
AutoSelected(list, addressCount) ==
    IF Len(list) < addressCount THEN list ELSE SubSeq(list, 1, addressCount)

SelectionChanged(selected) ==
    /\ selectedNFTs' = selected
    /\ UNCHANGED <<inputs, umiState, fetcher, uploads, console, probing, compressed, regular, selector, pc, i, thrown,
                   timer, blockhashReqs, connected, nftType, addresses, sending, toasts, hs>>

\* A card of the list is clicked.
ToggleNFT(id) ==
    /\ SelectorShown
    /\ id \in Range(nfts)
    /\ SelectionChanged(Toggled(selectedNFTs, id, Len(addresses)))

\* The Auto-select button.
HandleAutoSelect ==
    /\ SelectorShown
    /\ SelectionChanged(AutoSelected(nfts, Len(addresses)))

\* The Clear selection button, shown when something is selected.
ClearSelection ==
    /\ SelectorShown
    /\ selectedNFTs # <<>>
    /\ SelectionChanged(<<>>)

NextSelector ==
    \/ \E text \in SelectorTexts : PageHandlePaste(text)
    \/ \E a \in AddressTokens : PageRemoveAddress(a)
    \/ \E w \in PublicKeys : WalletChange(w)
    \/ \E t \in NftTypes : SetNftType(t)
    \/ Refresh
    \/ \E load \in loads, ok \in BOOLEAN : LoadResponse(load, ok)
    \/ \E id \in Range(nfts) : ToggleNFT(id)
    \/ HandleAutoSelect
    \/ ClearSelection

SpecSelector == InitSelector /\ [][NextSelector]_vars

(***************************************************************************)
(* nft-fetcher: fetchWalletNFTs and fetchWalletCNFTs under withRateLimit   *)
(***************************************************************************)
\* withRateLimit's default delay, which both fetchers use.
RateLimitDelayMs == 100

ListingFunctions == {"fetchWalletNFTs", "fetchWalletCNFTs"}

\* How a fetch of getAssetsByOwner settles: it resolves with a response of
\* some HTTP status (a 429 included), or it rejects with an error whose
\* message holds "429", holds "rate limit", or holds neither.
FetchResolves == {"http200", "http429", "http500"}
FetchRejects == {"throws429", "throwsRateLimit", "throwsOther"}

\* How response.json() settles: a body with result.items, a body without
\* (a JSON-RPC error), or a rejection (no JSON).
ListingBodies == {"items", "noItems", "notJson"}

\* error.message?.includes("429") || error.message?.includes("rate limit")
IsRateLimitError(outcome) == outcome \in {"throws429", "throwsRateLimit"}

\* result.items for a wallet: all its assets, each marked compressed or not.
WalletAssets(w) ==
    [k \in 1 .. Len(Holdings(w, "regular")) |->
        [id |-> Holdings(w, "regular")[k], compressed |-> FALSE]]
    \o [k \in 1 .. Len(Holdings(w, "cnft")) |->
        [id |-> Holdings(w, "cnft")[k], compressed |-> TRUE]]

\* The filter and the map of a fetcher: the mints of its asset family.
Listed(fn, items) ==
    LET Wanted(a) == a.compressed = (fn = "fetchWalletCNFTs")
        kept == SelectSeq(items, Wanted)
    IN  [k \in 1 .. Len(kept) |-> kept[k].id]

\* A fetcher is called: withRateLimit calls fn, the first request is issued.
ListingCall(fn, w) ==
    /\ listing.pc = "idle"
    /\ listing' = [IdleListing EXCEPT !.pc = "fetch", !.fn = fn, !.wallet = w,
                                      !.requests = 1]
    /\ UNCHANGED <<inputs, umiState, uploads, selector, console, probing, compressed, regular, page,
                   pc, i, thrown, timer, blockhashReqs>>

\* The pending fetch settles. Resolved, whatever the status: withRateLimit
\* returns the response and response.json() is awaited. Rejected in the
\* first call of fn with a rate-limit message: the wait of delay * 2.
\* Rejected otherwise: the error reaches the fetcher's catch, which returns [].
ListingFetchSettled(outcome) ==
    /\ listing.pc = "fetch"
    /\ listing' =
          LET seen == [listing EXCEPT !.responses = Append(@, outcome)]
          IN  IF outcome \in FetchResolves
              THEN [seen EXCEPT !.pc = "json"]
              ELSE IF IsRateLimitError(outcome) /\ listing.requests = 1
              THEN [seen EXCEPT !.pc = "wait", !.waits = Append(@, RateLimitDelayMs * 2)]
              ELSE [seen EXCEPT !.pc = "returned", !.result = <<>>]
    /\ UNCHANGED <<inputs, umiState, uploads, selector, console, probing, compressed, regular, page,
                   pc, i, thrown, timer, blockhashReqs>>

\* The wait is over: fn is called again, the second request is issued.
ListingRetry ==
    /\ listing.pc = "wait"
    /\ listing' = [listing EXCEPT !.pc = "fetch", !.requests = @ + 1]
    /\ UNCHANGED <<inputs, umiState, uploads, selector, console, probing, compressed, regular, page,
                   pc, i, thrown, timer, blockhashReqs>>

\* response.json() settles: the mints of the family, or [] when there is no
\* result.items or no JSON.
ListingJsonSettled(body) ==
    /\ listing.pc = "json"
    /\ listing' = [listing EXCEPT
                      !.pc = "returned",
                      !.body = body,
                      !.result = IF body = "items"
                                 THEN Listed(listing.fn, WalletAssets(listing.wallet))
                                 ELSE <<>>]
    /\ UNCHANGED <<inputs, umiState, uploads, selector, console, probing, compressed, regular, page,
                   pc, i, thrown, timer, blockhashReqs>>

NextListing ==
    \/ \E fn \in ListingFunctions, w \in {Wallet, OtherWallet} : ListingCall(fn, w)
    \/ \E outcome \in FetchResolves \cup FetchRejects : ListingFetchSettled(outcome)
    \/ ListingRetry
    \/ \E body \in ListingBodies : ListingJsonSettled(body)

SpecListing == InitAddressInput /\ [][NextListing]_vars

(***************************************************************************)
(* transferCompressedNFTsUmi                                               *)
(***************************************************************************)
\* The function is called: its two entry checks, then the loop.
UmiCall ==
    /\ umi.pc = "idle"
    /\ umi' = IF ~WalletReady
              THEN [umi EXCEPT !.pc = "threw", !.thrown = "Wallet not connected"]
              ELSE IF ~CountsMatch(nftMints, recipients)
              THEN [umi EXCEPT !.pc = "threw",
                               !.thrown = "Number of NFTs must match number of recipients"]
              ELSE [umi EXCEPT !.pc = "loop"]
    /\ UNCHANGED <<inputs, fetcher, uploads, selector, console, probing, compressed,
                   regular, page, pc, i, thrown, timer, blockhashReqs>>

\* The top of the loop: after the last entry the count is logged and the
\* signatures are returned; an entry with an empty mint or recipient is
\* skipped; else getAssetWithProof is called.
UmiLoopTop ==
    /\ umi.pc = "loop"
    /\ umi' = IF umi.i > N
              THEN [umi EXCEPT !.pc = "returned",
                               !.logged = Append(@, Len(umi.signatures)),
                               !.result = umi.signatures]
              ELSE IF nftMints[umi.i] = "" \/ recipients[umi.i] = ""
              THEN [umi EXCEPT !.i = @ + 1, !.skipped = Append(@, umi.i)]
              ELSE [umi EXCEPT !.pc = "assetWithProof"]
    /\ UNCHANGED <<inputs, fetcher, uploads, selector, console, probing, compressed,
                   regular, page, pc, i, thrown, timer, blockhashReqs>>

\* createUmi and getAssetWithProof settle: on success
\* transfer(...).sendAndConfirm is called; a failure goes to the catch block
\* and the loop goes on.
UmiAssetWithProof(ok) ==
    /\ umi.pc = "assetWithProof"
    /\ umi' = IF ok
              THEN [umi EXCEPT !.pc = "sendAndConfirm"]
              ELSE [umi EXCEPT !.pc = "loop", !.i = @ + 1, !.failed = Append(@, umi.i)]
    /\ UNCHANGED <<inputs, fetcher, uploads, selector, console, probing, compressed,
                   regular, page, pc, i, thrown, timer, blockhashReqs>>

\* sendAndConfirm settles: its result is dropped either way, and the loop
\* goes on without a delay.
UmiSendAndConfirm(ok) ==
    /\ umi.pc = "sendAndConfirm"
    /\ umi' = IF ok
              THEN [umi EXCEPT !.pc = "loop", !.i = @ + 1, !.confirmed = Append(@, umi.i)]
              ELSE [umi EXCEPT !.pc = "loop", !.i = @ + 1, !.failed = Append(@, umi.i)]
    /\ UNCHANGED <<inputs, fetcher, uploads, selector, console, probing, compressed,
                   regular, page, pc, i, thrown, timer, blockhashReqs>>

NextUmi ==
    \/ UmiCall
    \/ UmiLoopTop
    \/ \E ok \in BOOLEAN : UmiAssetWithProof(ok)
    \/ \E ok \in BOOLEAN : UmiSendAndConfirm(ok)

SpecUmi == InitAt("idle") /\ [][NextUmi]_vars

(***************************************************************************)
(* checkDASSupport: the call                                               *)
(***************************************************************************)
\* RPCWarning's effect calls checkDASSupport(createConnection()).
InitDAS ==
    /\ InitCall("idle")
    /\ ~walletConnected
    /\ ~heliusUrl
    /\ nftMints = <<>>
    /\ recipients = <<>>
    /\ connected = FALSE
    /\ nftType = "regular"
    /\ selectedNFTs = <<>>
    /\ addresses = <<>>
    /\ sending = FALSE
    /\ toasts = <<>>
    /\ hs = "idle"

CheckDASSupportCall ==
    /\ dasPc = "idle"
    /\ dasPc' = "fetch"
    /\ UNCHANGED <<inputs, umiState, fetcher, uploads, selector, console, page, compressed, regular, pc, i, thrown, timer,
                   blockhashReqs, dasResponse, dasSupported>>

\* await fetch(...): it resolves with a response of any status, or rejects
\* and the catch block returns false.
FetchResponse ==
    /\ dasPc = "fetch"
    /\ \/ \E status \in HttpStatuses :
            /\ dasResponse' = [dasResponse EXCEPT !.fetched = "ok", !.status = status]
            /\ dasPc' = "json"
            /\ UNCHANGED dasSupported
       \/ /\ dasResponse' = [dasResponse EXCEPT !.fetched = "threw"]
          /\ dasSupported' = FALSE
          /\ dasPc' = "returned"
    /\ UNCHANGED <<inputs, umiState, fetcher, uploads, selector, console, page, compressed, regular, pc, i, thrown, timer,
                   blockhashReqs>>

\* await response.json() and the return statement: the body decodes and the
\* comparison is returned, or decoding rejects and the catch block returns
\* false.
JsonResponse ==
    /\ dasPc = "json"
    /\ \/ \E body \in Bodies :
            /\ dasResponse' = [dasResponse EXCEPT !.decoded = "ok", !.body = body]
            /\ dasSupported' = SupportedFrom(body)
       \/ /\ dasResponse' = [dasResponse EXCEPT !.decoded = "threw"]
          /\ dasSupported' = FALSE
    /\ dasPc' = "returned"
    /\ UNCHANGED <<inputs, umiState, fetcher, uploads, selector, console, page, compressed, regular, pc, i, thrown, timer,
                   blockhashReqs>>

NextDAS == CheckDASSupportCall \/ FetchResponse \/ JsonResponse

SpecDAS == InitDAS /\ [][NextDAS]_vars

\* The Send button is pressed, or a transfer function is called by itself.
SpecAny == (InitPage \/ Init \/ InitRegular) /\ [][NextPage]_vars

(***************************************************************************)
(* Vocabulary of the properties                                            *)
(***************************************************************************)
Terminal(j) == jobLog[j].outcome \in {"Skipped", "Confirmed", "Failed"}

Started(j) == jobLog[j].outcome # "Pending"

\* Job j has a request of its own on the wire, or a retry of one pending.
Outstanding(j) ==
    \/ assetCall[j].st = "pending"
    \/ proofCall[j].st \in {"pending", "backoff"}

\* Nothing of job j went past validation.
NothingBuilt(j) ==
    /\ ~jobLog[j].ixBuilt
    /\ jobLog[j].blockhashReqs = 0
    /\ jobLog[j].signReqs = 0
    /\ jobLog[j].sendReqs = 0
    /\ jobLog[j].confirmReqs = 0
    /\ jobLog[j].outcome # "Confirmed"

\* The requests job j has issued, by kind.
Issued(log, call) ==
    <<log.getAssetReqs, call.reqs, log.blockhashReqs, log.signReqs, log.sendReqs,
      log.confirmReqs>>

(***************************************************************************)
(* C1. transferCompressedNFTs called with N pairs returns exactly N        *)
(* entries, one per input pair, however many jobs fail or are skipped.     *)
(* The code returns only the signatures of the confirmed jobs.             *)
(***************************************************************************)
C1_ResultHasOneEntryPerPair == pc = "returned" => Len(result) = Len(nftMints)

(***************************************************************************)
(* C2. When job j fails, at whatever stage, the function does not throw    *)
(* and the loop goes on to job j+1: it is in the delay after job j, at the *)
(* head of iteration j+1, or job j+1 has been started.                     *)
(***************************************************************************)
C2_FailureNeverAbortsBatch ==
    \A j \in Jobs :
        jobLog[j].outcome = "Failed" =>
            /\ pc # "threw"
            /\ j < N =>
                \/ i = j /\ pc = "delay"
                \/ i = j + 1 /\ pc = "loop"
                \/ Started(j + 1)

C2_Witness ==
    /\ N >= 2
    /\ jobLog[1].outcome = "Failed"
    /\ jobLog[1].reason = "ConfirmFailed"
    /\ jobLog[2].outcome = "Running"

(***************************************************************************)
(* C3. Jobs run one at a time in input order: a job has issued a request   *)
(* or been started only when every earlier job is terminal, and a terminal *)
(* job never changes its outcome nor issues another request.               *)
(***************************************************************************)
C3_InOrder ==
    \A j \in Jobs :
        (Started(j) \/ Issued(jobLog[j], proofCall[j]) # Issued(NewJobLog, IdleProof)) =>
            \A k \in 1 .. j - 1 : Terminal(k)

C3_NoReattempt ==
    \A j \in Jobs :
        Terminal(j) =>
            /\ jobLog'[j].outcome = jobLog[j].outcome
            /\ jobLog'[j].reason = jobLog[j].reason
            /\ \A n \in 1 .. 6 :
                   Issued(jobLog'[j], proofCall'[j])[n] <= Issued(jobLog[j], proofCall[j])[n]

\* C3: jobs run one at a time in input order and a terminal job is never taken up again.
C3_SerialInInputOrder == []C3_InOrder /\ [][C3_NoReattempt]_vars

C3_Witness ==
    /\ N >= 2
    /\ jobLog[1].outcome = "Failed"
    /\ jobLog[2].outcome = "Confirmed"

(***************************************************************************)
(* C4. A job whose fetched asset reports an owner other than the signing   *)
(* wallet builds no instruction, asks for no blockhash or signature and    *)
(* submits nothing.  As claimed it always fails with the not-owner error;  *)
(* the code gives that error only when the proof fetch succeeded, and the  *)
(* proof-fetch error when it did not.                                      *)
(***************************************************************************)
ReportsOtherOwner(j) ==
    /\ assetCall[j].st = "resolved"
    /\ assetCall[j].val.found
    /\ assetCall[j].val.owner # Wallet

\* C4 as claimed: such a job builds nothing and always ends with the not-owner error.
C4_Original_AlwaysNotOwner ==
    \A j \in Jobs :
        ReportsOtherOwner(j) =>
            /\ NothingBuilt(j)
            /\ Terminal(j) => jobLog[j].outcome = "Failed" /\ jobLog[j].reason = "NotOwner"

\* C4 amended: such a job builds nothing and ends Failed, with the not-owner error
\* exactly when its proof fetch succeeded, with the proof-fetch error otherwise.
C4_NotOwnerBuildsNothing ==
    \A j \in Jobs :
        ReportsOtherOwner(j) =>
            /\ NothingBuilt(j)
            /\ Terminal(j) =>
                /\ jobLog[j].outcome = "Failed"
                /\ jobLog[j].reason \in {"NotOwner", "ProofFetchFailed"}
                /\ jobLog[j].reason = "ProofFetchFailed" <=> proofCall[j].st # "resolved"

C4_Witness ==
    \E j \in Jobs :
        /\ ReportsOtherOwner(j)
        /\ proofCall[j].st = "resolved"
        /\ Len(proofCall[j].val.nodes) > 0
        /\ jobLog[j].reason = "NotOwner"

(***************************************************************************)
(* C5. A job whose proof has no nodes, or whose proof field is missing or  *)
(* not an array, is rejected before any instruction is built, signed or    *)
(* submitted.                                                              *)
(***************************************************************************)
HoldsUnusableProof(j) ==
    /\ proofCall[j].st = "resolved"
    /\ \/ proofCall[j].val.proofKind # "array"
       \/ proofCall[j].val.nodes = <<>>

\* C5: a job holding a proof without nodes builds, signs and submits nothing and fails.
C5_EmptyProofRejected ==
    \A j \in Jobs :
        HoldsUnusableProof(j) =>
            /\ NothingBuilt(j)
            /\ Terminal(j) => jobLog[j].outcome = "Failed"

C5_Witness ==
    \E j \in Jobs :
        /\ HoldsUnusableProof(j)
        /\ assetCall[j].st = "resolved"
        /\ assetCall[j].val.owner = Wallet
        /\ jobLog[j].reason = "InvalidProof"

(***************************************************************************)
(* C6. When a later job has begun, no request of an earlier job is still   *)
(* outstanding.  Promise.all rejects as soon as the proof fetch has failed *)
(* and leaves the getAsset request of that job unanswered.                 *)
(***************************************************************************)
C6_NothingOutstandingAtNextJob ==
    \A j \in Jobs : \A k \in Jobs : (j < k /\ Started(k)) => ~Outstanding(j)

(***************************************************************************)
(* C7. The returned value holds, for every pair, its outcome: entry j is   *)
(* the signature of job j when it was confirmed, and an entry of its own   *)
(* (no other job's signature) carrying the reason when it failed.          *)
(***************************************************************************)
C7_ResultCarriesEveryOutcome ==
    pc = "returned" =>
        \A j \in Jobs :
            /\ jobLog[j].outcome = "Confirmed" =>
                   j \in DOMAIN result /\ result[j] = jobLog[j].signature
            /\ jobLog[j].outcome = "Failed" =>
                   /\ j \in DOMAIN result
                   /\ \A k \in Jobs : result[j] # jobLog[k].signature

(***************************************************************************)
(* C8. One call of fetchIndividualAssetProof issues at most 3 requests,    *)
(* returns on the first attempt with a valid response, and throws only     *)
(* after the third failed attempt.  As claimed no throw comes earlier; the *)
(* code throws at once, before any request, when no endpoint is set.       *)
(***************************************************************************)
ProofCallBounded(c) ==
    /\ c.reqs <= 3
    /\ c.attempt = c.reqs
    /\ c.st = "resolved" =>
        /\ ValidProofStructure(c.val)
        /\ Len(c.waits) + 1 = c.attempt

C9_BackoffIsBaseTimesAttempt ==
    \A j \in Jobs :
        LET c == proofCall[j]
        IN  /\ c.waits \in {<<>>, <<1000>>, <<1000, 2000>>}
            /\ \A k \in DOMAIN c.waits : c.waits[k] >= BaseDelayMs
            /\ c.st = "backoff" => Len(c.waits) = c.attempt
            /\ c.st \in {"pending", "resolved"} => Len(c.waits) + 1 = c.attempt
            /\ (c.st = "rejected" /\ c.attempt > 0) => Len(c.waits) + 1 = c.attempt

C9_Witness ==
    \E j \in Jobs :
        /\ proofCall[j].st = "rejected"
        /\ proofCall[j].waits = <<1000, 2000>>

(***************************************************************************)
(* C10. The asset fetch is never retried, and a job whose asset fetch      *)
(* yields no result fails without signing or submitting.  As claimed every *)
(* job issues exactly one getAsset request; without an endpoint a job      *)
(* fails having issued none.                                               *)
(***************************************************************************)
YieldsNoAsset(j) == assetCall[j].st = "resolved" /\ ~assetCall[j].val.found

RateLimitedThenOk(j) ==
    /\ proofCall[j].rateLimitedFirst
    /\ proofCall[j].st = "resolved"
    /\ proofCall[j].attempt = 2

\* The failures of the stages that follow validation.
LaterStageFailures == {"BlockhashFailed", "SignFailed", "SendFailed", "ConfirmFailed"}

\* C11: when the first getAssetProof request of a job is answered with a
\* rate-limit response, every later request of that call goes out only after
\* a backoff wait of at least the base delay; and when the second attempt
\* succeeds, the job ends Confirmed unless one of its remaining stages
\* (asset fetch, validation, blockhash, signing, submission, confirmation)
\* fails by itself.
C11_RateLimitedFetchRecovers ==
    \A j \in Jobs :
        /\ (proofCall[j].rateLimitedFirst /\ proofCall[j].attempt >= 2)
              => /\ Len(proofCall[j].waits) >= proofCall[j].attempt - 1
                 /\ proofCall[j].waits[1] >= BaseDelayMs
        /\ ( /\ RateLimitedThenOk(j)
             /\ Terminal(j)
             /\ assetCall[j].st = "resolved"
             /\ Validate(assetCall[j].val, proofCall[j].val, recipients[j]) = "" )
              => \/ jobLog[j].outcome = "Confirmed"
                 \/ jobLog[j].reason \in LaterStageFailures

C11_Witness ==
    \E j \in Jobs :
        /\ RateLimitedThenOk(j)
        /\ proofCall[j].waits = <<BaseDelayMs>>
        /\ proofCall[j].reqs = 2
        /\ jobLog[j].outcome = "Confirmed"

(***************************************************************************)
(* C12: retry of signing and submission in the compressed transfer         *)
(***************************************************************************)
\* C12: in transferCompressedNFTs a job that is marked failed because
\* signing or submitting its transaction raised an error has made three
\* signing attempts before (the job retries signing+submission, 3 attempts in
\* total).
C12_SignSubmitRetriedThrice ==
    \A j \in Jobs :
        (jobLog[j].outcome = "Failed" /\ jobLog[j].reason \in {"SignFailed", "SendFailed"})
            => jobLog[j].signReqs = 3

(***************************************************************************)
(* C13: the delay between consecutive entries                              *)
(***************************************************************************)
\* C13 as stated: before every entry but the first starts, a delay of at
\* least 1000 ms has elapsed since the previous entry ended, whatever the
\* previous entry's outcome (confirmed, failed or skipped as invalid).
C13_Original_DelayAfterEveryEntry ==
    \A j \in Jobs :
        (j > 1 /\ Started(j)) => jobLog[j].delayBefore >= InterJobDelayMs

\* C13, amended: the delay of at least 1000 ms elapses after every entry that
\* was processed as a job (confirmed or failed); after an entry skipped as
\* invalid the next entry starts without any delay.
C13_DelayAfterProcessedEntry ==
    \A j \in Jobs :
        (j > 1 /\ Started(j))
            => IF jobLog[j - 1].outcome = "Skipped"
               THEN jobLog[j].delayBefore = 0
               ELSE /\ jobLog[j - 1].outcome \in {"Confirmed", "Failed"}
                    /\ jobLog[j].delayBefore >= InterJobDelayMs

C13_Witness ==
    /\ N >= 2
    /\ jobLog[1].outcome = "Failed"
    /\ jobLog[2].outcome = "Running"
    /\ jobLog[2].delayBefore = InterJobDelayMs

(***************************************************************************)
(* C14: one signing request at a time                                      *)
(***************************************************************************)
\* Job j has called wallet.signTransaction and the wallet has not answered.
SignOutstanding(j) ==
    jobLog[j].signReqs >
        jobLog[j].sendReqs + (IF jobLog[j].reason = "SignFailed" THEN 1 ELSE 0)

\* Job j waits for the answer to its submission or to its confirmation.
SubmitOutstanding(j) ==
    /\ jobLog[j].sendReqs > 0
    /\ ~Terminal(j)

\* C14: at most one signTransaction request is outstanding against the
\* wallet at any time, and when a job has issued its signing request every
\* earlier entry is finished: its signing, submission and confirmation have
\* been answered.
C14_OneSigningAtATime ==
    /\ Cardinality({j \in Jobs : SignOutstanding(j)}) <= 1
    /\ \A j \in Jobs :
          jobLog[j].signReqs > 0
              => \A k \in 1 .. j - 1 :
                    /\ Terminal(k)
                    /\ ~SignOutstanding(k)
                    /\ ~SubmitOutstanding(k)

C14_Witness ==
    /\ N >= 2
    /\ jobLog[1].outcome = "Confirmed"
    /\ jobLog[1].signReqs = 1
    /\ SignOutstanding(2)

(***************************************************************************)
(* C15: a wallet that cannot sign stops either transfer at its entry       *)
(***************************************************************************)
\* Neither function has issued a request or built anything.
NothingIssued ==
    /\ blockhashReqs = 0
    /\ regLog = NewRegLog
    /\ regTx = NewRegTx
    /\ transaction = NoTx
    /\ \A j \in Jobs :
          /\ jobLog[j] = NewJobLog
          /\ assetCall[j] = IdleAsset
          /\ proofCall[j] = IdleProof

\* C15: when the wallet has no public key or cannot sign, either transfer
\* function is at its entry or has thrown "Wallet not connected", and no
\* indexing request, account lookup, blockhash request, signing request or
\* submission was issued and no job was started.
C15_NoWalletThrowsAtEntry ==
    ~walletConnected
        => /\ pc \in {"call", "threw", "r_call", "r_threw"}
           /\ pc \in {"threw", "r_threw"} => thrown = "Wallet not connected"
           /\ NothingIssued

C15_Witness ==
    /\ ~walletConnected
    /\ N >= 1
    /\ Len(recipients) = N
    /\ \A k \in Jobs : nftMints[k] # "" /\ recipients[k] # ""
    /\ pc = "r_threw"
    /\ thrown = "Wallet not connected"

(***************************************************************************)
(* C16: no indexing-service endpoint configured                            *)
(***************************************************************************)
\* C16: when no indexing-service endpoint is configured, no job of a
\* compressed batch is started and the call does not return normally: the
\* batch fails as a whole.
C16_NoEndpointFailsWholeBatch ==
    (~heliusUrl /\ Len(recipients) = N)
        => \A j \in Jobs :
              (nftMints[j] # "" /\ recipients[j] # "")
                  => /\ ~Started(j)
                     /\ pc # "returned"

(***************************************************************************)
(* C17: every job signs over data it fetched itself                        *)
(***************************************************************************)
\* The locals of job j's iteration are still there: the loop stands in
\* iteration j, or j was the last iteration.
InIteration(j) == i = j \/ (j = N /\ i > N)

\* C17: a job issues its fetches only when every earlier entry is finished,
\* and a job that has reached signing holds asset data and a proof that its
\* own getAsset request and its own getAssetProof request(s) returned; the
\* transaction it builds is made of that asset, that proof and its recipient.
C17_SignsOverOwnFreshData ==
    \A j \in Jobs :
        /\ (jobLog[j].getAssetReqs > 0 \/ proofCall[j].reqs > 0)
              => \A k \in 1 .. j - 1 : Terminal(k)
        /\ (jobLog[j].signReqs > 0 /\ InIteration(j))
              => /\ assetCall[j].st = "resolved"
                 /\ assetCall[j].reqs = 1
                 /\ jobLog[j].getAssetReqs = 1
                 /\ proofCall[j].st = "resolved"
                 /\ proofCall[j].reqs = proofCall[j].attempt
                 /\ proofCall[j].reqs >= 1
        /\ (jobLog[j].signReqs > 0 /\ i = j /\ pc \in {"sign", "send", "confirm"})
              => transaction.keys =
                     TransferKeys(assetCall[j].val, proofCall[j].val, recipients[j])

C17_Witness ==
    /\ N >= 2
    /\ i = 2
    /\ pc = "sign"
    /\ jobLog[1].signReqs = 1
    /\ jobLog[2].signReqs = 1
    /\ jobLog[2].getAssetReqs = 1
    /\ proofCall[2].reqs = 2
    /\ assetCall[1] = IdleAsset

(***************************************************************************)
(* C18: one blockhash per job                                              *)
(***************************************************************************)
\* Job j holds a transaction that carries a blockhash.
HoldsBlockhash(j) == i = j /\ pc \in {"sign", "send", "confirm"}

\* C18: a job that has reached signing has built its instruction and has
\* then made exactly one getLatestBlockhash request of its own; every such
\* request belongs to one job, the transaction a job signs carries the answer
\* to its own request, and no two jobs of a batch were confirmed with the
\* same blockhash.
C18_OwnBlockhashPerJob ==
    /\ Cardinality({j \in Jobs : jobLog[j].blockhashReqs = 1}) = blockhashReqs
    /\ \A j \in Jobs :
          /\ jobLog[j].blockhashReqs <= 1
          /\ jobLog[j].blockhashReqs = 1 => jobLog[j].ixBuilt
          /\ jobLog[j].signReqs > 0 => jobLog[j].blockhashReqs = 1
          /\ HoldsBlockhash(j)
                => /\ transaction.blockhash = blockhashReqs
                   /\ \A k \in Jobs \ {j} :
                         jobLog[k].signature.blockhash # transaction.blockhash
    /\ \A j, k \in Jobs :
          (j # k /\ jobLog[j].outcome = "Confirmed" /\ jobLog[k].outcome = "Confirmed")
              => jobLog[j].signature.blockhash # jobLog[k].signature.blockhash

C18_Witness ==
    /\ N >= 2
    /\ jobLog[1].outcome = "Confirmed"
    /\ jobLog[2].outcome = "Confirmed"
    /\ jobLog[1].signature.blockhash = 1
    /\ jobLog[2].signature.blockhash = 2

(***************************************************************************)
(* C19: who passes ownership validation                                    *)
(***************************************************************************)
\* Job j came to the ownership check: both fetches resolved with data.
ReachedOwnershipCheck(j) ==
    /\ InIteration(j)
    /\ assetCall[j].st = "resolved"
    /\ proofCall[j].st = "resolved"
    /\ DataFetched(assetCall[j].val, proofCall[j].val)

FailedOwnership(j) == jobLog[j].outcome = "Failed" /\ jobLog[j].reason = "NotOwner"

HoldsInstruction(j) == i = j /\ pc \in {"blockhash", "sign", "send", "confirm"}

\* C20: the transfer instruction of a job that passed validation with a
\* proof of L sibling nodes has exactly 8 + L accounts.
C20_EightPlusProofAccounts ==
    \A j \in Jobs :
        HoldsInstruction(j)
            => /\ jobLog[j].ixBuilt
               /\ Len(proofCall[j].val.nodes) >= 1
               /\ Len(transaction.keys) = 8 + Len(proofCall[j].val.nodes)

C20_Witness ==
    \E j \in Jobs :
        /\ HoldsInstruction(j)
        /\ pc = "sign"
        /\ Len(proofCall[j].val.nodes) = 2
        /\ Len(transaction.keys) = 10

(***************************************************************************)
(* C21: the order of the accounts of the transfer instruction              *)
(***************************************************************************)
\* The public keys of an account list, in order.
Pubkeys(keys) == [k \in 1 .. Len(keys) |-> keys[k].pubkey]

\* C21: the instruction a job built lists tree authority, leaf owner, the
\* asset's delegate if it has one else the leaf owner, recipient, merkle
\* tree, log program, compression program, system program, then the proof
\* nodes in the order the proof service returned them; the leaf owner is the
\* only signer and the merkle tree the only writable account.
C21_AccountOrder ==
    \A j \in Jobs :
        HoldsInstruction(j)
            => LET keys == transaction.keys
                   asset == assetCall[j].val
                   nodes == proofCall[j].val.nodes
               IN  /\ Pubkeys(keys) =
                         << TreeAuthority(asset.tree),
                            Wallet,
                            IF asset.delegate = "" THEN Wallet ELSE asset.delegate,
                            recipients[j],
                            asset.tree,
                            "noop", "compression", "system" >> \o nodes
                   /\ {k \in 1 .. Len(keys) : keys[k].isSigner} = {2}
                   /\ {k \in 1 .. Len(keys) : keys[k].isWritable} = {5}

C21_Witness ==
    \E j \in Jobs :
        /\ HoldsInstruction(j)
        /\ assetCall[j].val.delegate = "delegate"
        /\ proofCall[j].val.nodes = <<"n1", "n2">>
        /\ Pubkeys(transaction.keys) =
              << "authority", Wallet, "delegate", recipients[j], GoodTree, "noop",
                 "compression", "system", "n1", "n2" >>

(***************************************************************************)
(* C22: what fetchIndividualAssetProof returns                             *)
(***************************************************************************)
\* C22: a proof that fetchIndividualAssetProof returned has a root and a
\* proof that is an array and is not empty (a response without them, or one
\* carrying a service error, is a failed attempt and is never returned).
C22_ReturnedProofIsUsable ==
    \A j \in Jobs :
        proofCall[j].st = "resolved"
            => /\ proofCall[j].val.present
               /\ proofCall[j].val.root # ""
               /\ proofCall[j].val.proofKind = "array"
               /\ proofCall[j].val.nodes # <<>>

(***************************************************************************)
(* C23: termination, one terminal state per job, stages in one direction   *)
(***************************************************************************)
\* How far job j has come: not started, fetching, instruction built, signing
\* requested, submitted, confirmation requested, terminal.
StageOf(log) ==
    IF log.outcome \in {"Skipped", "Confirmed", "Failed"} THEN 6
    ELSE IF log.confirmReqs > 0 THEN 5
    ELSE IF log.sendReqs > 0 THEN 4
    ELSE IF log.signReqs > 0 THEN 3
    ELSE IF log.ixBuilt THEN 2
    ELSE IF log.outcome = "Running" THEN 1
    ELSE 0

\* Entry j has a mint and a recipient.
ValidEntry(j) == nftMints[j] # "" /\ recipients[j] # ""

C23_Terminates == <>(pc \in {"returned", "threw"})

\* A job's stage never decreases and a terminal outcome never changes.
C23_StageMonotone ==
    \A j \in Jobs :
        /\ StageOf(jobLog'[j]) >= StageOf(jobLog[j])
        /\ Terminal(j) => jobLog'[j].outcome = jobLog[j].outcome

C23_OneTerminalStatePerEntry ==
    pc = "returned"
        => \A j \in Jobs :
              IF ValidEntry(j)
              THEN jobLog[j].outcome \in {"Confirmed", "Failed"}
              ELSE jobLog[j].outcome = "Skipped"

ConfirmedTransfers ==
    IF nftType = "cnft"
    THEN Cardinality({j \in Jobs : jobLog[j].outcome = "Confirmed"})
    ELSE IF pc = "r_returned" THEN N ELSE 0

\* C24: the number of NFTs a success toast reports as sent is the number of
\* transfers of the batch that were confirmed.
C24_ReportedCountIsConfirmedCount ==
    \A k \in 1 .. Len(toasts) :
        toasts[k].kind = "success" => toasts[k].count = ConfirmedTransfers

(***************************************************************************)
(* C25: one submission per pair, and only for the pairs handed in          *)
(***************************************************************************)
\* The assets this invocation was not given, such as those a previous
\* invocation confirmed and the caller left out.
LeftOut == {MintNames[k] : k \in 1 .. Len(MintNames)} \ {nftMints[j] : j \in Jobs}

\* Job j's transaction is at the network.
AtNetwork(j) == i = j /\ pc \in {"send", "confirm"}

\* C25: one invocation of transferCompressedNFTs submits at most one
\* transaction per input pair, every submitted transaction transfers the
\* pair's own asset to the pair's own recipient, and no transaction is ever
\* submitted or confirmed for an asset that is not in the input list.
C25_AtMostOneSubmissionPerPair ==
    \A j \in Jobs :
        /\ jobLog[j].sendReqs <= 1
        /\ AtNetwork(j)
              => /\ transaction.mint = nftMints[j]
                 /\ transaction.to = recipients[j]
                 /\ transaction.mint \notin LeftOut
        /\ jobLog[j].outcome = "Confirmed"
              => /\ jobLog[j].sendReqs = 1
                 /\ jobLog[j].signature.mint = nftMints[j]
                 /\ jobLog[j].signature.to = recipients[j]
                 /\ jobLog[j].signature.mint \notin LeftOut

C25_Witness ==
    /\ N = 2
    /\ nftMints[1] = ""
    /\ "mintA" \in LeftOut
    /\ pc = "returned"
    /\ jobLog[2].outcome = "Confirmed"
    /\ jobLog[2].signature.mint = "mintB"
    /\ result = <<jobLog[2].signature>>

(***************************************************************************)
(* C26: the blockhash of a re-submitted transaction                        *)
(***************************************************************************)
\* C26: in transferRegularNFTs every attempt after a failed one signs and
\* submits the transaction with a blockhash fetched after that failure: no
\* two attempts carry the same blockhash.
C26_ResubmissionUsesFreshBlockhash ==
    \A a, b \in 1 .. Len(regLog.signedBlockhashes) :
        a # b => regLog.signedBlockhashes[a] # regLog.signedBlockhashes[b]

(***************************************************************************)
(* C27: the one transaction of transferRegularNFTs                         *)
(***************************************************************************)
\* The instructions the claim describes for the first n entries, given which
\* token-account lookups failed.
RECURSIVE ExpectedIxs(_, _)
ExpectedIxs(n, failed) ==
    IF n = 0 THEN <<>>
    ELSE ExpectedIxs(n - 1, failed)
            \o (IF failed[n]
                THEN << [kind |-> "createATA", mint |-> nftMints[n], from |-> Wallet,
                         to |-> recipients[n]] >>
                ELSE <<>>)
            \o << [kind |-> "transfer", mint |-> nftMints[n], from |-> Wallet,
                   to |-> recipients[n]] >>

IsTransfer(ix) == ix.kind = "transfer"

\* The loop over the entries is done and the transaction is complete.
RegTxComplete == pc \in {"r_blockhash", "r_sign", "r_send", "r_confirm", "r_wait", "r_returned"}

\* C27: the one transaction of a call of transferRegularNFTs with N pairs
\* holds exactly N transfer instructions, the k-th for mint k and recipient
\* k, each preceded by a create-token-account instruction exactly when the
\* lookup of that recipient's token account failed; every submission of the
\* call is of that transaction, and the returned signature is its signature.
C27_OneTransactionWithNTransfers ==
    /\ RegTxComplete
          => /\ Len(regLog.lookupFailed) = N
             /\ regLog.getAccountReqs = N
             /\ regTx.ixs = ExpectedIxs(N, regLog.lookupFailed)
             /\ Len(SelectSeq(regTx.ixs, IsTransfer)) = N
    /\ regSignature.sent => regSignature.ixs = regTx.ixs
    /\ pc = "r_returned" => (regResult.sent /\ regResult.ixs = regTx.ixs)

C27_Witness ==
    /\ pc = "r_returned"
    /\ N = 2
    /\ regLog.lookupFailed = <<TRUE, FALSE>>
    /\ Len(regResult.ixs) = 3
    /\ regLog.sendReqs = 1

(***************************************************************************)
(* C28: the two counts must match                                          *)
(***************************************************************************)
\* The transfer instructions of the regular transaction, in order.
RegTransfers == SelectSeq(regTx.ixs, IsTransfer)

\* C28: when the number of NFTs differs from the number of recipients,
\* handleSend returns without calling a transfer function and a transfer
\* function that is called throws the count error (after its wallet check)
\* before any network, signing or submission call; when the counts match,
\* every transfer that is built, submitted or confirmed moves the k-th NFT to
\* the k-th recipient.
C28_CountsMustMatch ==
    IF Len(nftMints) # Len(recipients)
    THEN /\ NothingIssued
         /\ pc \in {"idle", "call", "r_call", "threw", "r_threw"}
         /\ hs \in {"none", "idle", "done"}
         /\ hs = "done" => (pc = "idle" /\ ~sending /\ toasts[Len(toasts)].kind = "error")
         /\ (pc \in {"threw", "r_threw"} /\ walletConnected)
               => thrown = "Number of NFTs must match number of recipients"
    ELSE /\ \A j \in Jobs :
              /\ HoldsInstruction(j) =>
                    (transaction.mint = nftMints[j] /\ transaction.to = recipients[j]
                        /\ transaction.keys[4].pubkey = recipients[j])
              /\ jobLog[j].outcome = "Confirmed" =>
                    (jobLog[j].signature.mint = nftMints[j]
                        /\ jobLog[j].signature.to = recipients[j])
         /\ RegTxComplete
               => /\ Len(RegTransfers) = N
                  /\ \A k \in 1 .. N :
                        /\ RegTransfers[k].mint = nftMints[k]
                        /\ RegTransfers[k].to = recipients[k]

C28_Witness ==
    /\ Len(nftMints) = 2
    /\ Len(recipients) = 1
    /\ connected
    /\ hs = "done"
    /\ pc = "idle"
    /\ toasts = <<Toast("error", 1, "one NFT per recipient")>>

(***************************************************************************)
(* C29: the recipient address list                                         *)
(***************************************************************************)
\* C29: after any sequence of paste, CSV-upload and remove actions every
\* entry of the address list passed validation and no address is in the list
\* more than once.
C29_AddressListValidAndUnique ==
    /\ \A k \in 1 .. Len(addresses) : ValidateSolanaAddress(addresses[k])
    /\ \A k, m \in 1 .. Len(addresses) : k # m => addresses[k] # addresses[m]

(***************************************************************************)
(* C30                                                                     *)
(***************************************************************************)
\* The probe answered with an error object whose code is the number -32601.
CarriesMethodNotFound ==
    /\ dasResponse.decoded = "ok"
    /\ dasResponse.body.kind = "object"
    /\ dasResponse.body.error.kind = "object"
    /\ dasResponse.body.error.code = [kind |-> "number", num |-> MethodNotFound]

ProbeThrew == dasResponse.fetched = "threw" \/ dasResponse.decoded = "threw"

\* C30 as stated: checkDASSupport returns false exactly when the response
\* carries the error code -32601 or the request or its decoding throws, and
\* true for every other response.
C30_Original_FalseExactlyOnMethodNotFoundOrThrow ==
    dasPc = "returned" =>
        (~dasSupported <=> (CarriesMethodNotFound \/ ProbeThrew))

\* C30: checkDASSupport returns false exactly when the response carries the
\* numeric error code -32601, or the request or its decoding throws, or the
\* body decodes to null; it returns true for every other response, whatever
\* its HTTP status, other error code or missing error.
C30_FalseExactlyOnMethodNotFoundThrowOrNullBody ==
    dasPc = "returned" =>
        (~dasSupported <=>
            \/ CarriesMethodNotFound
            \/ ProbeThrew
            \/ (dasResponse.decoded = "ok" /\ dasResponse.body.kind = "null"))

\* A probe answered with another numeric error code has returned true.
C30_Witness ==
    /\ dasPc = "returned"
    /\ dasSupported
    /\ dasResponse.body.kind = "object"
    /\ dasResponse.body.error.kind = "object"
    /\ dasResponse.body.error.code.kind = "number"
    /\ dasResponse.body.error.code.num # MethodNotFound

(***************************************************************************)
(* C31: the returned list                                                  *)
(***************************************************************************)
\* The signatures of the jobs 1 .. j whose confirmation call returned, in
\* input order.
RECURSIVE ConfirmedSignatures(_)
ConfirmedSignatures(j) ==
    IF j = 0 THEN <<>>
    ELSE ConfirmedSignatures(j - 1)
            \o (IF jobLog[j].confirmReqs = 1 /\ jobLog[j].outcome = "Confirmed"
                THEN <<jobLog[j].signature>> ELSE <<>>)

\* C31: the returned list holds exactly the signatures of the jobs whose
\* confirmation call returned, in input order, each the signature of that
\* job's own pair; a job whose confirmation call threw has no signature in
\* it; and the success count logged is the length of the list.
C31_ReturnsConfirmedSignaturesInOrder ==
    pc = "returned" =>
        /\ result = ConfirmedSignatures(N)
        /\ \A j \in Jobs :
              jobLog[j].outcome = "Confirmed" =>
                  /\ jobLog[j].signature.mint = nftMints[j]
                  /\ jobLog[j].signature.to = recipients[j]
        /\ \A j \in Jobs :
              jobLog[j].reason = "ConfirmFailed" =>
                  \A k \in 1 .. Len(result) :
                      ~(result[k].mint = nftMints[j] /\ result[k].to = recipients[j])
        /\ logged = <<Len(result)>>

\* A batch has returned whose first job was submitted and its confirmation
\* threw, and whose second job was confirmed.
C31_Witness ==
    /\ pc = "returned"
    /\ N = 2
    /\ jobLog[1].reason = "ConfirmFailed"
    /\ jobLog[2].outcome = "Confirmed"
    /\ Len(result) = 1

(***************************************************************************)
(* C32: the attempts of transferRegularNFTs                                *)
(***************************************************************************)
\* The attempts begun so far: each begins with a signTransaction call.
RegAttempts == regLog.signReqs

RegAttemptRunning == pc \in {"r_sign", "r_send", "r_confirm"}

\* C32: transferRegularNFTs makes at most 3 attempts; every attempt but the
\* running one has failed; it returns, with the signature of the attempt
\* that confirmed, at the first confirmation; it throws "failed after 3
\* attempts" exactly at the third failure; after each of the first two
\* failures it waits 2000 ms when the error names a rate limit and 1000 ms
\* otherwise, and it does not wait after the third.
C32_ThreeAttemptsWithWaits ==
    /\ RegAttempts <= 3
    /\ Len(regLog.failures) <= 3
    /\ RegAttemptRunning => RegAttempts = Len(regLog.failures) + 1
    /\ pc = "r_wait" => RegAttempts = Len(regLog.failures)
    /\ pc = "r_returned" =>
          /\ RegAttempts = Len(regLog.failures) + 1
          /\ regLog.confirmReqs >= 1
          /\ regResult = [sent |-> TRUE, ixs |-> regTx.ixs, blockhash |-> regTx.blockhash]
    /\ (pc = "r_threw" /\ RegAttempts > 0) <=> Len(regLog.failures) = 3
    /\ Len(regLog.failures) = 3 => thrown = "Transaction failed after 3 attempts"
    /\ Len(regLog.waits) = (IF Len(regLog.failures) = 3 THEN 2 ELSE Len(regLog.failures))
    /\ \A k \in 1 .. Len(regLog.waits) :
          regLog.waits[k] = (IF regLog.failures[k] = "rateLimit" THEN 2000 ELSE 1000)
    /\ pc = "r_wait" => timer = regLog.waits[Len(regLog.waits)]

\* The function has thrown after a rate-limit failure, another failure and a
\* third failure.
C32_Witness ==
    /\ pc = "r_threw"
    /\ Len(regLog.failures) = 3
    /\ regLog.failures[1] = "rateLimit"
    /\ regLog.failures[2] = "error"
    /\ regLog.waits = <<2000, 1000>>

(***************************************************************************)
(* C33: the selection against the recipients                               *)
(***************************************************************************)
\* C33: whenever there is at least one recipient address, no more NFTs are
\* selected than there are recipient addresses.
C33_SelectionWithinRecipientCount ==
    Len(addresses) > 0 => Len(selectedNFTs) <= Len(addresses)

(***************************************************************************)
(* C34: the selection against the loaded list                              *)
(***************************************************************************)
\* The Send button is shown and enabled.
SendEnabled ==
    /\ connected
    /\ Len(addresses) > 0
    /\ Len(selectedNFTs) = Len(addresses)
    /\ ~sending

\* C34: every selected id is in the list loaded for the chosen NFT type and
\* the connected wallet; so when the Send button is enabled every selected id
\* is of the chosen asset family.
C34_SelectionFromCurrentList ==
    /\ \A k \in 1 .. Len(selectedNFTs) :
          /\ selectedNFTs[k] \in Range(nfts)
          /\ selectedNFTs[k] \in Range(Holdings(publicKey, nftType))
    /\ SendEnabled =>
          \A k \in 1 .. Len(selectedNFTs) :
              \E w \in PublicKeys : selectedNFTs[k] \in Range(Holdings(w, nftType))

(***************************************************************************)
(* C35: the rows of an uploaded CSV file                                   *)
(***************************************************************************)
\* C35: when a CSV file is uploaded, every row whose first column is a valid
\* address not yet in the list is in the list afterwards, the first row of
\* the file included.
C35_EveryValidRowIsAdded ==
    [][\A rows \in Texts :
          HandleCSVUpload(rows) =>
              \A k \in 1 .. Len(rows) :
                  (ValidateSolanaAddress(rows[k]) /\ rows[k] \notin Range(addresses))
                      => rows[k] \in Range(addresses')]_vars

(***************************************************************************)
(* C36: a CSV parse that completes after another input action              *)
(***************************************************************************)
\* C36: when a pending CSV parse completes, every address added to the list
\* since the upload started is still in the list, and every address removed
\* from it since then is still out of it.
C36_CompletionKeepsLaterInput ==
    [][\A parse \in parses :
          CSVParseComplete(parse) =>
              /\ \A a \in Range(addresses) \ Range(parse.addresses) :
                    a \in Range(addresses')
              /\ \A a \in Range(parse.addresses) \ Range(addresses) :
                    a \notin Range(addresses')]_vars

(***************************************************************************)
(* C37: the sending flag                                                   *)
(***************************************************************************)
\* A call of a transfer function has been made and has not settled.
TransferInProgress == pc \notin {"idle", "returned", "threw", "r_returned", "r_threw"}

\* A call of a transfer function is made in this step.
TransferStarts == pc' \in {"call", "r_call"} /\ (pc' # pc \/ hs' # hs)

\* C37, the flag is set before a transfer starts and while it runs.
C37_FlagSetWhileTransferRuns == TransferInProgress => sending

\* C37, a transfer starts only when the flag is clear and no transfer runs,
\* and the step in which handleSend ends clears the flag.
C37_NoSecondBatchWhileSending ==
    [][/\ TransferStarts => (~sending /\ ~TransferInProgress /\ sending')
       /\ (hs = "awaiting" /\ hs' = "done") => ~sending']_vars

\* C37, the flag is eventually cleared after every send.
C37_FlagEventuallyCleared == sending ~> ~sending

RateLimitSignalled(k) ==
    /\ k <= Len(listing.responses)
    /\ listing.responses[k] \in {"http429", "throws429", "throwsRateLimit"}

\* C38: a listing retries the getAssetsByOwner request exactly once, after
\* waiting twice the configured delay, when the service signals a rate limit
\* on the first request; it does not retry on any other failure; and it
\* issues at most two requests.
C38_RetriesOnceOnRateLimitOnly ==
    /\ listing.requests <= 2
    /\ listing.pc = "returned" =>
          IF RateLimitSignalled(1)
          THEN listing.requests = 2 /\ listing.waits = <<2 * RateLimitDelayMs>>
          ELSE listing.requests = 1 /\ listing.waits = <<>>

(***************************************************************************)
(* C39: what transferCompressedNFTsUmi returns                             *)
(***************************************************************************)
\* C39: when transferCompressedNFTsUmi returns, the number of signatures it
\* returns and the success count it logged are the number of input pairs
\* whose transfer was sent and confirmed.
C39_UmiReturnsOneSignaturePerConfirmedPair ==
    umi.pc = "returned" =>
        /\ Len(umi.result) = Len(umi.confirmed)
        /\ umi.logged = <<Len(umi.confirmed)>>

=============================================================================
